---- MODULE Spec2Model ----
(***************************************************************************)
(* Live Buffer of ParseDataService (app/services/data.service.ts): the     *)
(* bulk populate, the subscription handlers, the buffered reads and the    *)
(* cache-first fetch, against a remote store that creates, updates and     *)
(* deletes documents of the service's class.                               *)
(***************************************************************************)
EXTENDS Integers, FiniteSets, Sequences, TLC

\* ------------------------------------------------------------------ bounds
MaxId == 2          \* document identifiers are 1..MaxId
MaxEvents == 3      \* number of changes the store makes in one behaviour

Ids == 1..MaxId

\* Class names a facade is constructed with: one that the registry defines
\* and one that it does not.
ClassNamesUsed == {"_Role", "Task"}

\* ------------------------------------------------------- class registry
\* Classnames[classname]: _Role is an EntityObjectDefinition, _User and
\* File are plain strings, any other name is undefined.
Classnames(c) ==
  CASE c = "_Role" -> "definition"
    [] c = "_User" -> "_User"
    [] c = "File"  -> "_File"
    [] OTHER       -> "undefined"

\* ------------------------------------------------------------ hydration
\* The value `undefined`.
NoObj == [kind |-> "undefined", id |-> 0, inst |-> <<"none", 0>>]

\* mapParseAttributesToEntityObject on a document of class c with
\* identifier i; tag names the object allocated by this call.  The result
\* carries the document as its handle (id), or is undefined.
mapParseAttributesToEntityObject(c, i, tag) ==
  LET classReference == Classnames(c) IN
  IF classReference = "undefined" THEN NoObj
  ELSE IF classReference = "_User"
       THEN [kind |-> "user", id |-> i, inst |-> tag]
  ELSE IF classReference = "File"
       THEN [kind |-> "file", id |-> i, inst |-> tag]
  ELSE IF classReference # "definition" THEN NoObj   \* a string has no .type
  ELSE [kind |-> "entity", id |-> i, inst |-> tag]

\* afterSubUpdate: hydration of the document of one subscription event.
afterSubUpdate(c, i, seq) == mapParseAttributesToEntityObject(c, i, <<"event", seq>>)

\* Result array of find(): the matching documents, by ascending identifier.
RECURSIVE SortedSeq(_)
SortedSeq(S) ==
  IF S = {} THEN << >>
  ELSE LET m == CHOOSE x \in S : \A y \in S : x <= y
       IN <<m>> \o SortedSeq(S \ {m})

\* afterBufferDownload: mapParseArrayOfAttributesToEntityObject(rows, 0, 2),
\* one hydration per row.
afterBufferDownload(c, rs) ==
  [n \in DOMAIN rs |-> mapParseAttributesToEntityObject(c, rs[n], <<"row", rs[n]>>)]

\* unindexedBufferData.forEach(x => dataBuffer[x.entity.id] = x): a later
\* element with the same identifier overwrites an earlier one.
\* (IndexByPosition: the variant that keys by position in the array.)
IndexByPosition(objs) == [k \in DOMAIN objs |-> objs[k]]
IndexById(objs) ==
  [k \in {objs[n].id : n \in DOMAIN objs} |->
     objs[CHOOSE n \in DOMAIN objs :
            /\ objs[n].id = k
            /\ \A m \in DOMAIN objs : objs[m].id = k => m <= n]]

\* The forEach stops with a TypeError at the first undefined element
\* (x.entity of undefined); the elements before it have been stored.
FirstUndefined(objs) ==
  IF \E n \in DOMAIN objs : objs[n].kind = "undefined"
  THEN CHOOSE n \in DOMAIN objs :
         /\ objs[n].kind = "undefined"
         /\ \A m \in DOMAIN objs : objs[m].kind = "undefined" => n <= m
  ELSE 0

\* dataBuffer[k] = o
Store(buf, k, o) ==
  [j \in DOMAIN buf \cup {k} |-> IF j = k THEN o ELSE buf[j]]

\* delete dataBuffer[k]
Remove(buf, k) == [j \in DOMAIN buf \ {k} |-> buf[j]]

\* ----------------------------------------------------------------- values
\* Values of a domain object's fields and of a document's attributes.  A
\* domain object and a document's attribute bag are functions from field
\* names to values; a Parse.Object instance is named by its address in
\* the heap `parse`.
Undef == [t |-> "undefined"]
Null == [t |-> "null"]
Scalar(v) == [t |-> "scalar", v |-> v]
Arr(es) == [t |-> "array", elems |-> es]
\* a Parse.Object (Parse.User and Parse.Role are Parse.Objects)
DocRef(n) == [t |-> "doc", ref |-> n]
\* a Parse.File
ParseFile(n) == [t |-> "pfile", name |-> n]
\* an instance of a class extending EntityObject, with its fields
Entity(o) == [t |-> "entity", o |-> o]
\* an instance of EntityFile, with its fields
EntityFile(o) == [t |-> "file", o |-> o]
\* any other object, with its fields (the result of mapParseUserToUser)
PlainObject(o) == [t |-> "object", o |-> o]

\* o[k] of JavaScript: undefined where the property is missing.
Get(o, k) == IF k \in DOMAIN o THEN o[k] ELSE Undef

\* v == undefined
Nullish(v) == v.t \in {"undefined", "null"}

\* !v is false: the empty string is the falsy scalar of the model.
Truthy(v) == ~Nullish(v) /\ v # Scalar("")

\* obj.set(k, v) and obj.unset(k) on an attribute bag
SetAttr(attrs, k, v) ==
  [j \in DOMAIN attrs \cup {k} |-> IF j = k THEN v ELSE attrs[j]]
UnsetAttr(attrs, k) == [j \in DOMAIN attrs \ {k} |-> attrs[j]]

\* ---------------------------------------------------------------- flatten
\* mapTypescriptAttributeToParseObjectAttribute: an EntityObject, or any
\* object with a defined entity, gives its entity; an EntityFile gives its
\* entity; everything else is returned as it is.
\* (mapTypescriptAttributeVerbatim: the variant that returns every
\* attribute as it is.)
mapTypescriptAttributeVerbatim(attribute) == attribute
mapTypescriptAttributeToParseObjectAttribute(attribute) ==
  IF attribute.t = "entity" THEN Get(attribute.o, "entity")
  ELSE IF /\ attribute.t \in {"file", "object"}
          /\ ~Nullish(Get(attribute.o, "entity"))
       THEN Get(attribute.o, "entity")
  ELSE IF attribute.t = "file" THEN Get(attribute.o, "entity")
  ELSE attribute

\* checkIfIndexingIsNeeded
checkIfIndexingIsNeeded(attribute) ==
  \/ attribute.t = "entity"
  \/ attribute.t \in {"file", "object"} /\ ~Nullish(Get(attribute.o, "entity"))
  \/ attribute.t = "file"
  \/ attribute.t \in {"doc", "pfile"}

\* x.id of a value: the identifier of a Parse.Object (0 while it has
\* none), undefined (0 as well) for anything else.
IdOf(heap, x) == IF x.t = "doc" THEN heap[x.ref].id ELSE 0

\* The test of AddUnique and Remove: the same instance, or Parse.Objects
\* of one class with one identifier.
SameObject(heap, x, y) ==
  \/ x = y
  \/ /\ x.t = "doc" /\ y.t = "doc"
     /\ heap[x.ref].id # 0
     /\ heap[x.ref].id = heap[y.ref].id
     /\ heap[x.ref].className = heap[y.ref].className

\* array.filter
RECURSIVE Filter(_, _)
Filter(seq, keepAt) ==
  IF seq = << >> THEN << >>
  ELSE LET rest == Filter(Tail(seq), [n \in 1..Len(seq) - 1 |-> keepAt[n + 1]])
       IN IF keepAt[1] THEN <<Head(seq)>> \o rest ELSE rest

\* obj.addAllUnique(k, xs) applied to the array cur
RECURSIVE AddAllUnique(_, _, _)
AddAllUnique(heap, cur, xs) ==
  IF xs = << >> THEN cur
  ELSE AddAllUnique(heap,
         IF \E n \in DOMAIN cur : SameObject(heap, cur[n], Head(xs))
         THEN cur ELSE Append(cur, Head(xs)),
         Tail(xs))

\* obj.remove(k, x) for every x of xs, applied to the array cur
RemoveAll(heap, cur, xs) ==
  Filter(cur, [n \in DOMAIN cur |->
                 ~\E m \in DOMAIN xs : SameObject(heap, cur[n], xs[m])])

\* The elements of the array the document holds that mappings removes,
\* and the elements of the desired array that it adds: those whose
\* identifier no element of the other array has.
\* (toRemoveByInstance, toAddByInstance: the variants that compare the
\* Parse.Object instances instead of their identifiers.)
toRemoveByInstance(heap, cur, parseAttributes) ==
  Filter(cur, [n \in DOMAIN cur |->
     ~\E m \in DOMAIN parseAttributes : parseAttributes[m] = cur[n]])
toRemove(heap, cur, parseAttributes) ==
  Filter(cur, [n \in DOMAIN cur |->
     ~\E m \in DOMAIN parseAttributes :
        IdOf(heap, parseAttributes[m]) = IdOf(heap, cur[n])])
toAddByInstance(heap, cur, parseAttributes) ==
  Filter(parseAttributes, [n \in DOMAIN parseAttributes |->
     ~\E m \in DOMAIN cur : cur[m] = parseAttributes[n]])
toAdd(heap, cur, parseAttributes) ==
  Filter(parseAttributes, [n \in DOMAIN parseAttributes |->
     ~\E m \in DOMAIN cur :
        IdOf(heap, cur[m]) = IdOf(heap, parseAttributes[n])])

\* One call on the Parse.Object for an array property: addUnique or
\* remove of one element, addAllUnique or set of an array.
ArrayOp(op, x) == [op |-> op, x |-> x]

\* The calls that the array branch of mappings makes for one property,
\* in order, given the value the document holds and the desired elements
\* in handle form.  When the first element is a Parse.Object: addUnique
\* for toAdd and then remove for toRemove if the document holds a value,
\* one addAllUnique if it holds none; otherwise one set.
\* (arrayOpsOneByOne: the variant that adds element by element when the
\* document holds no value.)
arrayOpsOneByOne(heap, held, parseAttributes) ==
  IF Len(parseAttributes) > 0 /\ parseAttributes[1].t = "doc"
  THEN LET cur == IF Truthy(held) /\ held.t = "array" THEN held.elems ELSE << >>
           adds == toAdd(heap, cur, parseAttributes)
           removes == toRemove(heap, cur, parseAttributes)
       IN [n \in DOMAIN adds |-> ArrayOp("addUnique", adds[n])]
          \o [n \in DOMAIN removes |-> ArrayOp("remove", removes[n])]
  ELSE <<ArrayOp("set", Arr(parseAttributes))>>
arrayOps(heap, held, parseAttributes) ==
  IF Len(parseAttributes) > 0 /\ parseAttributes[1].t = "doc"
  THEN IF Truthy(held) /\ held.t = "array"
       THEN LET adds == toAdd(heap, held.elems, parseAttributes)
                removes == toRemove(heap, held.elems, parseAttributes)
            IN [n \in DOMAIN adds |-> ArrayOp("addUnique", adds[n])]
               \o [n \in DOMAIN removes |-> ArrayOp("remove", removes[n])]
       ELSE <<ArrayOp("addAllUnique", Arr(parseAttributes))>>
  ELSE <<ArrayOp("set", Arr(parseAttributes))>>

\* The array a property holds after one call.
\* (applyOpOverwrite: the variant in which addUnique and remove write the
\* whole array.)
applyOpOverwrite(heap, value, o) ==
  LET cur == IF value.t = "array" THEN value.elems ELSE << >>
  IN IF o.op = "addUnique" THEN Arr(<<o.x>>)
     ELSE IF o.op = "remove" THEN Arr(<< >>)
     ELSE IF o.op = "addAllUnique" THEN Arr(AddAllUnique(heap, cur, o.x.elems))
     ELSE o.x
applyOp(heap, value, o) ==
  LET cur == IF value.t = "array" THEN value.elems ELSE << >>
  IN IF o.op = "addUnique" THEN Arr(AddAllUnique(heap, cur, <<o.x>>))
     ELSE IF o.op = "remove" THEN Arr(RemoveAll(heap, cur, <<o.x>>))
     ELSE IF o.op = "addAllUnique" THEN Arr(AddAllUnique(heap, cur, o.x.elems))
     ELSE o.x

RECURSIVE applyOps(_, _, _)
applyOps(heap, value, ops) ==
  IF ops = << >> THEN value
  ELSE applyOps(heap, applyOp(heap, value, Head(ops)), Tail(ops))

\* The array branch of mappings for one property: the elements in handle
\* form, and the calls of arrayOps applied to what the document holds.
mapArray(heap, held, elems) ==
  LET parseAttributes ==
        [n \in DOMAIN elems |-> mapTypescriptAttributeToParseObjectAttribute(elems[n])]
  IN applyOps(heap, held, arrayOps(heap, held, parseAttributes))

\* The names pushed to entityArrayProperties and entityProperties.
Names(S) == [t |-> "names", names |-> S]

\* The loop of mappings over the properties of entityObject, applied to
\* the attribute bag attrs of the target document.
\* (mapPropertiesTruthy: the variant that tests entityObject[property]
\* for truth, so that a falsy scalar is neither set nor unset.)
mapPropertiesTruthy(heap, entityObject, attrs) ==
  LET props == DOMAIN entityObject \ {"entity"}
      defined == {q \in props : Truthy(entityObject[q])}
      unset == {q \in props : Nullish(entityObject[q])}
      arrays == {q \in defined : entityObject[q].t = "array"}
  IN [k \in (DOMAIN attrs \ unset) \cup defined
               \cup {"entityArrayProperties", "entityProperties"} |->
        IF k = "entityArrayProperties" THEN Names(arrays)
        ELSE IF k = "entityProperties" THEN Names(defined \ arrays)
        ELSE IF k \in arrays
        THEN mapArray(heap, Get(attrs, k), entityObject[k].elems)
        ELSE IF k \in defined
        THEN mapTypescriptAttributeToParseObjectAttribute(entityObject[k])
        ELSE attrs[k]]
mapProperties(heap, entityObject, attrs) ==
  LET props == DOMAIN entityObject \ {"entity"}
      defined == {q \in props : ~Nullish(entityObject[q])}
      arrays == {q \in defined : entityObject[q].t = "array"}
  IN [k \in (DOMAIN attrs \ props) \cup defined
               \cup {"entityArrayProperties", "entityProperties"} |->
        IF k = "entityArrayProperties"
        THEN Names({q \in arrays :
                     \E n \in DOMAIN entityObject[q].elems :
                        checkIfIndexingIsNeeded(entityObject[q].elems[n])})
        ELSE IF k = "entityProperties"
        THEN Names({q \in defined \ arrays :
                     checkIfIndexingIsNeeded(entityObject[q])})
        ELSE IF k \in arrays
        THEN mapArray(heap, Get(attrs, k), entityObject[k].elems)
        ELSE IF k \in defined
        THEN mapTypescriptAttributeToParseObjectAttribute(entityObject[k])
        ELSE attrs[k]]

\* new Parse.Object(className)
NewParseObject(c) == [className |-> c, id |-> 0, attrs |-> << >>]

\* mappings(entityObject): the document to persist.  The handle of
\* entityObject when it has one (ref is its address), else a new
\* Parse.Object of the service's class with its classname attribute set
\* (ref is 0: the caller has no address for it yet).
mappings(heap, c, entityObject) ==
  IF ~Nullish(Get(entityObject, "entity"))
  THEN LET h == entityObject["entity"].ref
       IN [ref |-> h,
           obj |-> [heap[h] EXCEPT
                      !.attrs = mapProperties(heap, entityObject, heap[h].attrs)]]
  ELSE [ref |-> 0,
        obj |-> [NewParseObject(c) EXCEPT
                   !.attrs = mapProperties(heap, entityObject,
                                           SetAttr(<< >>, "classname", Scalar(c)))]]

\* ----------------------------------------------------- hydration in depth
\* Recursion levels the model follows before it reports a hydration as
\* unfinished.
MaxWalk == 6

\* Default arguments of the two hydration functions.
DefaultMaxDeep == 3
DefaultArrayMaxDeep == 2

\* new classReference.type(): Role initialises users and roles to [].
NewInstance(c) ==
  IF c = "_Role" THEN [users |-> Arr(<< >>), roles |-> Arr(<< >>)] ELSE << >>

\* mapFile
mapFile(parseFile) ==
  EntityFile([name |-> Scalar(parseFile.name), url |-> Scalar(parseFile.name),
              entity |-> parseFile])

\* mapParseUserToUser
mapParseUserToUser(heap, n) ==
  PlainObject([email |-> Get(heap[n].attrs, "email"),
               username |-> Get(heap[n].attrs, "username"),
               role |-> Get(heap[n].attrs, "role"),
               entity |-> DocRef(n),
               id |-> [t |-> "id", id |-> heap[n].id]])

\* What a hydration still running after MaxWalk levels is reported as.
Unfinished == [t |-> "unfinished"]

\* mapParseAttributesToEntityObject(parseElement, deepLevel, maxDeep) with
\* its attribute walk, and mapParseArrayOfAttributesToEntityObject, which
\* hydrates each element at deepLevel and passes no maxDeep on.
\* (mapParseObjectBare: the variant that attaches the document only
\* when it walks the attributes.)
RECURSIVE mapParseObject(_, _, _, _)
RECURSIVE mapParseArrayOfAttributesToEntityObject(_, _, _, _)
mapParseObjectBare(heap, parseElement, deepLevel, maxDeep) ==
  IF deepLevel > MaxWalk THEN Unfinished
  ELSE IF parseElement.t # "doc" THEN Undef
  ELSE
  LET n == parseElement.ref
      c == heap[n].className
      head == mapParseAttributesToEntityObject(c, heap[n].id, <<"get", n>>)
      attrs == heap[n].attrs
      walk(v) ==
        IF v.t = "pfile" THEN mapFile(v)
        ELSE IF v.t = "doc" THEN mapParseObject(heap, v, deepLevel + 1, maxDeep)
        ELSE IF v.t = "array" /\ Len(v.elems) > 0 /\ v.elems[1].t = "doc"
             THEN mapParseArrayOfAttributesToEntityObject(heap, v.elems,
                                                          deepLevel + 1, maxDeep)
        ELSE v
      m == NewInstance(c)
  IN IF head.kind = "undefined" THEN Undef
     ELSE IF head.kind = "user" THEN mapParseUserToUser(heap, n)
     ELSE IF head.kind = "file"
          THEN EntityFile([name |-> Undef, url |-> Undef, entity |-> parseElement])
     ELSE IF maxDeep = deepLevel THEN Entity(m)
     ELSE Entity(
       [k \in DOMAIN m \cup {"entity"} \cup DOMAIN attrs |->
          IF k = "entity" THEN parseElement
          ELSE IF k \in DOMAIN attrs THEN walk(attrs[k])
          ELSE m[k]])
mapParseObject(heap, parseElement, deepLevel, maxDeep) ==
  IF deepLevel > MaxWalk THEN Unfinished
  ELSE IF parseElement.t # "doc" THEN Undef   \* falsy, or without className
  ELSE
  LET n == parseElement.ref
      c == heap[n].className
      head == mapParseAttributesToEntityObject(c, heap[n].id, <<"get", n>>)
      attrs == heap[n].attrs
      walk(v) ==
        IF v.t = "pfile" THEN mapFile(v)
        ELSE IF v.t = "doc" THEN mapParseObject(heap, v, deepLevel + 1, maxDeep)
        ELSE IF v.t = "array" /\ Len(v.elems) > 0 /\ v.elems[1].t = "doc"
             THEN mapParseArrayOfAttributesToEntityObject(heap, v.elems,
                                                          deepLevel + 1, maxDeep)
        ELSE v
      m == NewInstance(c)
  IN IF head.kind = "undefined" THEN Undef
     ELSE IF head.kind = "user" THEN mapParseUserToUser(heap, n)
     ELSE IF head.kind = "file"
          THEN EntityFile([name |-> Undef, url |-> Undef, entity |-> parseElement])
     ELSE Entity(
       [k \in DOMAIN m \cup {"entity"}
                \cup (IF maxDeep # deepLevel THEN DOMAIN attrs ELSE {}) |->
          IF k = "entity" THEN parseElement
          ELSE IF maxDeep # deepLevel /\ k \in DOMAIN attrs THEN walk(attrs[k])
          ELSE m[k]])
\* (mapParseArrayAborting: the variant that gives up the whole array when
\* one element has no hydration.)
mapParseArrayAborting(heap, parseElements, deepLevel, maxDeep) ==
  IF maxDeep # deepLevel
  THEN IF \E j \in DOMAIN parseElements :
            mapParseObject(heap, parseElements[j], deepLevel, DefaultMaxDeep) = Undef
       THEN Undef
       ELSE Arr([j \in DOMAIN parseElements |->
                   mapParseObject(heap, parseElements[j], deepLevel, DefaultMaxDeep)])
  ELSE Arr(parseElements)
mapParseArrayOfAttributesToEntityObject(heap, parseElements, deepLevel, maxDeep) ==
  IF maxDeep # deepLevel
  THEN Arr([j \in DOMAIN parseElements |->
              mapParseObject(heap, parseElements[j], deepLevel, DefaultMaxDeep)])
  ELSE Arr(parseElements)

\* ---------------------------------------------------------------- state
VARIABLES
  classname,              \* this.classname
  session,                \* Parse.User.current() is defined
  server,                 \* the store: per id "absent", "in" (matches the
                          \* buffer query) or "out" (exists, does not match)
  nEvents,                \* changes made by the store so far
  dataBufferDefined,      \* this.dataBuffer !== undefined
  dataBuffer,             \* this.dataBuffer: id -> hydrated object
  dataBufferP,            \* this.dataBuffer$
  externalSubscriptionP,  \* this.externalSubscription$
  parseSubscription,      \* this.parseSubscription
  query,                  \* the bulk query of startupBuffer and its continuation
  rows,                   \* identifiers returned by the bulk query
  subscribeCall,          \* the promise of bufferQuery.subscribe()
  pending,                \* create/update/enter handlers suspended on afterSubUpdate
  lastEmit,               \* last event emitted on externalSubscription
  reader,                 \* one caller of the buffered read operations
  fetchRes,               \* outcome of the last fetchObjectByIdIfNeeded
  seqIds,                 \* identifiers cached if events were applied one at a time
  unsubCalled             \* unsubscribeLiveQuery was invoked after subscribe()

\* The heap of the caller and the documents of the store, for the
\* operations that write: save, destroy, duplicate.
VARIABLES
  parse,                  \* the Parse.Object instances in memory, by address
  remote,                 \* the documents the store holds, by identifier
  objects,                \* the caller's domain objects, by name
  inflight,               \* store calls issued and not yet settled
  opRes                   \* outcome of the last facade operation that returned

bufferVars == <<classname, session, server, nEvents, dataBufferDefined,
                dataBuffer, dataBufferP, externalSubscriptionP,
                parseSubscription, query, rows, subscribeCall, pending,
                lastEmit, reader, fetchRes, seqIds, unsubCalled>>
heapVars == <<parse, remote, objects, inflight, opRes>>
vars == <<bufferVars, heapVars>>

NoEmit == [name |-> "none", id |-> 0, obj |-> NoObj, held |-> NoObj,
           was |-> NoObj, seq |-> 0]
IdleReader == [op |-> "none", pc |-> "idle", ids |-> {}, defined |-> FALSE,
               emitter |-> "none"]
NoFetch == [id |-> 0, kind |-> "none", obj |-> NoObj, queries |-> 0]

\* The caller's variables that hold domain objects.
ObjNames == {"a", "b"}
\* kind is how the operation ended, err whether it logged a rejection of
\* the store, calls the store calls it issued, arg its other arguments.
NoOp == [op |-> "none", x |-> "none", kind |-> "none", obj |-> Undef,
         err |-> FALSE, calls |-> 0,
               arg |-> << >>]

\* The facade after construction.
InitBuffer ==
  /\ classname \in ClassNamesUsed
  /\ session \in BOOLEAN
  /\ server = [i \in Ids |-> "absent"]
  /\ nEvents = 0
  /\ dataBufferDefined = FALSE
  /\ dataBuffer = << >>
  /\ dataBufferP = "undefined"
  /\ externalSubscriptionP = "undefined"
  /\ parseSubscription = "undefined"
  /\ query = "none"
  /\ rows = << >>
  /\ subscribeCall = "none"
  /\ pending = {}
  /\ lastEmit = NoEmit
  /\ reader = IdleReader
  /\ fetchRes = NoFetch
  /\ seqIds = {}
  /\ unsubCalled = FALSE

\* Nothing allocated, nothing stored, nothing called; the caller holds
\* one new instance of the facade's type in each of its variables.
Init ==
  /\ InitBuffer
  /\ parse = << >>
  /\ remote = << >>
  /\ objects = [x \in ObjNames |-> NewInstance(classname)]
  /\ inflight = {}
  /\ opRes = NoOp

\* ------------------------------------------------------- startupBuffer
\* startupBuffer up to its first suspension: without a session the async
\* function returns (its promise resolves, nothing else is set); with a
\* session the bulk query is issued.
startupBuffer ==
  IF ~session
  THEN /\ dataBufferP' = "resolved"
       /\ UNCHANGED query
  ELSE /\ dataBufferP' = "pending"
       /\ query' = "pending"

\* query$ resolves: the cache is reset and the rows are handed to
\* afterBufferDownload, on which the continuation suspends.
QueryResolve ==
  /\ query = "pending"
  /\ dataBufferDefined' = TRUE
  /\ dataBuffer' = << >>
  /\ rows' = SortedSeq({i \in Ids : server[i] = "in"})
  /\ query' = "hydrating"
  /\ UNCHANGED heapVars
  /\ UNCHANGED <<classname, session, server, nEvents, dataBufferP,
                 externalSubscriptionP, parseSubscription, subscribeCall,
                 pending, lastEmit, reader, fetchRes, seqIds, unsubCalled>>

\* The continuation after afterBufferDownload: index the hydrated rows,
\* call subscribe() and return without awaiting it.
PopulateFinish ==
  /\ query = "hydrating"
  /\ LET objs == afterBufferDownload(classname, rows)
         bad == FirstUndefined(objs)
     IN IF bad # 0
        THEN /\ dataBuffer' = IndexById(SubSeq(objs, 1, bad - 1))
             /\ dataBufferP' = "rejected"
             /\ query' = "threw"
             /\ UNCHANGED <<externalSubscriptionP, subscribeCall, seqIds>>
        ELSE /\ dataBuffer' = IndexById(objs)
             /\ seqIds' = {rows[n] : n \in DOMAIN rows}
             /\ externalSubscriptionP' = "pending"
             /\ subscribeCall' = "pending"
             /\ dataBufferP' = "resolved"
             /\ query' = "done"
  /\ UNCHANGED heapVars
  /\ UNCHANGED <<classname, session, server, nEvents, dataBufferDefined,
                 parseSubscription, rows, pending, lastEmit, reader, fetchRes,
                 unsubCalled>>

\* The rejection handler of query$.then: reset the cache, install a
\* resolved promise of a fresh emitter, return (dataBuffer$ resolves).
\* (QueryRejectHandlerNoEmitter: the variant that installs no emitter.)
QueryRejectHandlerNoEmitter ==
  /\ dataBufferDefined' = TRUE
  /\ dataBuffer' = << >>
  /\ dataBufferP' = "resolved"
  /\ UNCHANGED externalSubscriptionP
QueryRejectHandler ==
  /\ dataBufferDefined' = TRUE
  /\ dataBuffer' = << >>
  /\ externalSubscriptionP' = "inert"
  /\ dataBufferP' = "resolved"

\* query$ is rejected.
QueryReject ==
  /\ query = "pending"
  /\ QueryRejectHandler
  /\ query' = "rejected"
  /\ UNCHANGED heapVars
  /\ UNCHANGED <<classname, session, server, nEvents, parseSubscription, rows,
                 subscribeCall, pending, lastEmit, reader, fetchRes, seqIds,
                 unsubCalled>>

\* subscribe() resolves: the emitter is created and the handlers are
\* registered on the subscription.
SubscribeResolve ==
  /\ subscribeCall = "pending"
  /\ subscribeCall' = "resolved"
  /\ parseSubscription' = "open"
  /\ externalSubscriptionP' = "live"
  /\ UNCHANGED heapVars
  /\ UNCHANGED <<classname, session, server, nEvents, dataBufferDefined,
                 dataBuffer, dataBufferP, query, rows, pending, lastEmit,
                 reader, fetchRes, seqIds, unsubCalled>>

\* subscribe() is rejected: the .then has no rejection handler, so
\* externalSubscription$ is a rejected promise and nothing else changes.
SubscribeReject ==
  /\ subscribeCall = "pending"
  /\ subscribeCall' = "rejected"
  /\ externalSubscriptionP' = "rejected"
  /\ UNCHANGED heapVars
  /\ UNCHANGED <<classname, session, server, nEvents, dataBufferDefined,
                 dataBuffer, dataBufferP, parseSubscription, query, rows,
                 pending, lastEmit, reader, fetchRes, seqIds, unsubCalled>>

\* ------------------------------------------------ subscription handlers
\* dataBuffer[k], undefined when the key is missing.
Lookup(buf, k) == IF k \in DOMAIN buf THEN buf[k] ELSE NoObj

\* externalSubscription.emit(name, o) for the event numbered seq about
\* identifier k: the listeners run inside the call and see the cache as it
\* is at that moment (held is what the cache holds under k then; was is
\* what it held when the handler's last synchronous part began).
Emit(name, k, o, buf, old, seq) ==
  [name |-> name, id |-> k, obj |-> o, held |-> Lookup(buf, k),
   was |-> Lookup(old, k), seq |-> seq]

\* The 'create', 'update' and 'enter' handlers up to `await afterSubUpdate`:
\* the handler is suspended; 'update' does nothing without a cache.
OnCreateUpdateEnter(name, i, seq) ==
  /\ pending' = IF name = "update" /\ ~dataBufferDefined
                THEN pending
                ELSE pending \cup {[seq |-> seq, name |-> name, id |-> i]}
  /\ UNCHANGED <<dataBuffer, lastEmit>>

\* The 'leave' and 'delete' handlers: emit the cached value, then delete
\* the key.  They do not suspend.
\* (OnLeaveDeleteRemoveFirst: the variant that deletes before it emits.)
OnLeaveDeleteRemoveFirst(name, i, seq) ==
  /\ dataBuffer' = Remove(dataBuffer, i)
  /\ lastEmit' = Emit(name, i, Lookup(dataBuffer', i), dataBuffer', dataBuffer, seq)
  /\ UNCHANGED pending
OnLeaveDelete(name, i, seq) ==
  /\ lastEmit' = Emit(name, i, Lookup(dataBuffer, i), dataBuffer, dataBuffer, seq)
  /\ dataBuffer' = Remove(dataBuffer, i)
  /\ UNCHANGED pending

\* The rest of a 'create', 'update' or 'enter' handler, after
\* afterSubUpdate has resolved: store under the identifier, then emit.
\* (StoreAndEmitIfCached: the variant that only replaces a cached entry.)
StoreAndEmitIfCached(h, updated) ==
  /\ dataBuffer' = IF updated.id \in DOMAIN dataBuffer
                   THEN Store(dataBuffer, updated.id, updated)
                   ELSE dataBuffer
  /\ lastEmit' = Emit(h.name, updated.id, updated, dataBuffer', dataBuffer, h.seq)
StoreAndEmit(h, updated) ==
  /\ dataBuffer' = Store(dataBuffer, updated.id, updated)
  /\ lastEmit' = Emit(h.name, updated.id, updated, dataBuffer', dataBuffer, h.seq)

\* Every handler invocation that can be suspended.
Handlers == [seq : 1..MaxEvents, name : {"create", "update", "enter"}, id : Ids]

HandlerResume(h) ==
  /\ h \in pending
  /\ pending' = pending \ {h}
  /\ LET updated == afterSubUpdate(classname, h.id, h.seq)
     IN IF updated.kind = "undefined"
        THEN UNCHANGED <<dataBuffer, lastEmit>>
        ELSE StoreAndEmit(h, updated)
  /\ UNCHANGED heapVars
  /\ UNCHANGED <<classname, session, server, nEvents, dataBufferDefined,
                 dataBufferP, externalSubscriptionP, parseSubscription, query,
                 rows, subscribeCall, reader, fetchRes, seqIds, unsubCalled>>

\* ---------------------------------------------------------- remote store
\* What the store does to document i, and the event it sends to an open
\* subscription ("silent": the document does not match the query before or
\* after the change, no event).
Changes ==
  {<<"absent", "create", "in">>, <<"in", "update", "in">>,
   <<"out", "enter", "in">>, <<"in", "leave", "out">>,
   <<"in", "delete", "absent">>, <<"absent", "silent", "out">>,
   <<"out", "silent", "absent">>}

\* One change of the store; an open subscription invokes the handler
\* registered for the event inside the same step.
ServerChange(i, ch) ==
  /\ nEvents < MaxEvents
  /\ server[i] = ch[1]
  /\ server' = [server EXCEPT ![i] = ch[3]]
  /\ nEvents' = nEvents + 1
  /\ IF parseSubscription = "open" /\ ch[2] # "silent"
     THEN IF ch[2] \in {"create", "update", "enter"}
          THEN /\ OnCreateUpdateEnter(ch[2], i, nEvents + 1)
               /\ seqIds' = IF afterSubUpdate(classname, i, nEvents + 1).kind = "undefined"
                               \/ (ch[2] = "update" /\ ~dataBufferDefined)
                            THEN seqIds ELSE seqIds \cup {i}
          ELSE /\ OnLeaveDelete(ch[2], i, nEvents + 1)
               /\ seqIds' = seqIds \ {i}
     ELSE UNCHANGED <<dataBuffer, lastEmit, pending, seqIds>>
  /\ UNCHANGED heapVars
  /\ UNCHANGED <<classname, session, dataBufferDefined, dataBufferP,
                 externalSubscriptionP, parseSubscription, query, rows,
                 subscribeCall, reader, fetchRes, unsubCalled>>

\* Parse.User.logIn (users.service.ts login): a session exists from now on.
LogIn ==
  /\ ~session
  /\ session' = TRUE
  /\ UNCHANGED heapVars
  /\ UNCHANGED <<classname, server, nEvents, dataBufferDefined, dataBuffer,
                 dataBufferP, externalSubscriptionP, parseSubscription, query,
                 rows, subscribeCall, pending, lastEmit, reader, fetchRes,
                 seqIds, unsubCalled>>

\* unsubscribeLiveQuery: unsubscribes only a subscription that is already
\* stored in parseSubscription.  unsubCalled records a call made once
\* subscribe() has been issued.
unsubscribeLiveQuery ==
  /\ parseSubscription' = IF parseSubscription # "undefined"
                          THEN "closed" ELSE parseSubscription
  /\ unsubCalled' = (unsubCalled \/ subscribeCall # "none")
  /\ UNCHANGED heapVars
  /\ UNCHANGED <<classname, session, server, nEvents, dataBufferDefined,
                 dataBuffer, dataBufferP, externalSubscriptionP, query, rows,
                 subscribeCall, pending, lastEmit, reader, fetchRes, seqIds>>

\* ---------------------------------------------------------------- reads
ReadOps == {"getIndexedBufferedData", "getBufferedData", "getSubscription"}

\* A call of getIndexedBufferedData, getBufferedData or getSubscription
\* (live mode): all three start in getIndexedBufferedData, which starts
\* the buffer when dataBuffer$ is undefined and then awaits dataBuffer$.
Call(op) ==
  /\ reader.pc \in {"idle", "returned", "raised"}
  /\ reader' = [IdleReader EXCEPT !.op = op, !.pc = "awaitBuffer"]
  /\ IF dataBufferP = "undefined"
     THEN startupBuffer
     ELSE UNCHANGED <<dataBufferP, query>>
  /\ UNCHANGED heapVars
  /\ UNCHANGED <<classname, session, server, nEvents, dataBufferDefined,
                 dataBuffer, externalSubscriptionP, parseSubscription, rows,
                 subscribeCall, pending, lastEmit, fetchRes, seqIds,
                 unsubCalled>>

\* dataBuffer$ has settled.  getIndexedBufferedData returns this.dataBuffer;
\* getBufferedData takes Object.values of it (a TypeError when it is
\* undefined); getSubscription goes on to await externalSubscription$.
\* (ReadAfterBufferGated: the variant that also waits for the subscription.)
ReadAfterBufferGated ==
  /\ reader.pc = "awaitBuffer"
  /\ dataBufferP \in {"resolved", "rejected"}
  /\ externalSubscriptionP \in {"live", "inert"}
  /\ reader' = [reader EXCEPT !.pc = "returned",
                              !.defined = dataBufferDefined,
                              !.ids = DOMAIN dataBuffer]
ReadAfterBuffer ==
  /\ reader.pc = "awaitBuffer"
  /\ dataBufferP \in {"resolved", "rejected"}
  /\ reader' =
       IF dataBufferP = "rejected"
       THEN [reader EXCEPT !.pc = "raised"]
       ELSE IF reader.op = "getIndexedBufferedData"
       THEN [reader EXCEPT !.pc = "returned",
                           !.defined = dataBufferDefined,
                           !.ids = DOMAIN dataBuffer]
       ELSE IF ~dataBufferDefined
       THEN [reader EXCEPT !.pc = "raised"]
       ELSE IF reader.op = "getBufferedData"
       THEN [reader EXCEPT !.pc = "returned", !.defined = TRUE,
                           !.ids = DOMAIN dataBuffer]
       ELSE [reader EXCEPT !.pc = "awaitSubscription"]

ReadBuffer ==
  /\ ReadAfterBuffer
  /\ UNCHANGED heapVars
  /\ UNCHANGED <<classname, session, server, nEvents, dataBufferDefined,
                 dataBuffer, dataBufferP, externalSubscriptionP,
                 parseSubscription, query, rows, subscribeCall, pending,
                 lastEmit, fetchRes, seqIds, unsubCalled>>

\* getSubscription: externalSubscription$ has settled (awaiting an
\* undefined field continues at once).
ReadSubscription ==
  /\ reader.pc = "awaitSubscription"
  /\ externalSubscriptionP # "pending"
  /\ reader' = IF externalSubscriptionP = "rejected"
               THEN [reader EXCEPT !.pc = "raised"]
               ELSE [reader EXCEPT !.pc = "returned",
                                   !.emitter = externalSubscriptionP]
  /\ UNCHANGED heapVars
  /\ UNCHANGED <<classname, session, server, nEvents, dataBufferDefined,
                 dataBuffer, dataBufferP, externalSubscriptionP,
                 parseSubscription, query, rows, subscribeCall, pending,
                 lastEmit, fetchRes, seqIds, unsubCalled>>

\* ---------------------------------------------------- cache-first fetch
\* getFullObjectById(i): query.get succeeds when the store has the
\* document and the request goes through (ok); the result is a spread
\* copy of the hydrated document ({} when hydration gives undefined).
Found(i, ok) == ok /\ server[i] # "absent"
getFullObjectById(i) ==
  LET h == mapParseAttributesToEntityObject(classname, i, <<"get", i>>)
  IN IF h.kind = "undefined"
     THEN [kind |-> "empty", id |-> 0, inst |-> <<"get", i>>]
     ELSE h

\* fetchObjectByIdIfNeeded(i): the outcome and the number of store queries.
\* (fetchAlwaysFromStore: the variant that never looks at the cache.)
fetchAlwaysFromStore(i, ok1, ok2) ==
  IF Found(i, ok1)
  THEN [id |-> i, kind |-> "object", obj |-> getFullObjectById(i), queries |-> 1]
  ELSE [id |-> i, kind |-> "raised", obj |-> NoObj, queries |-> 1]
fetchObjectByIdIfNeeded(i, ok1, ok2) ==
  IF ~dataBufferDefined \/ DOMAIN dataBuffer = {}
  THEN IF Found(i, ok1)
       THEN [id |-> i, kind |-> "object", obj |-> getFullObjectById(i), queries |-> 1]
       ELSE [id |-> i, kind |-> "raised", obj |-> NoObj, queries |-> 1]
  ELSE IF Lookup(dataBuffer, i).kind # "undefined"
  THEN [id |-> i, kind |-> "object", obj |-> dataBuffer[i], queries |-> 0]
  ELSE IF Found(i, ok1)
  THEN [id |-> i, kind |-> "object", obj |-> getFullObjectById(i), queries |-> 1]
  ELSE IF Found(i, ok2)
  THEN [id |-> i, kind |-> "object", obj |-> getFullObjectById(i), queries |-> 2]
  ELSE [id |-> i, kind |-> "absent", obj |-> NoObj, queries |-> 2]

Fetch(i, ok1, ok2) ==
  /\ fetchRes' = fetchObjectByIdIfNeeded(i, ok1, ok2)
  /\ UNCHANGED heapVars
  /\ UNCHANGED <<classname, session, server, nEvents, dataBufferDefined,
                 dataBuffer, dataBufferP, externalSubscriptionP,
                 parseSubscription, query, rows, subscribeCall, pending,
                 lastEmit, reader, seqIds, unsubCalled>>

\* ------------------------------------------------------- specification
Next ==
  \/ QueryResolve
  \/ PopulateFinish
  \/ QueryReject
  \/ SubscribeResolve
  \/ SubscribeReject
  \/ \E h \in Handlers : HandlerResume(h)
  \/ \E i \in Ids, ch \in Changes : ServerChange(i, ch)
  \/ LogIn
  \/ unsubscribeLiveQuery
  \/ \E op \in ReadOps : Call(op)
  \/ ReadBuffer
  \/ ReadSubscription

Spec == Init /\ [][Next]_vars

\* The cache-first fetch against every cache the Live Buffer can hold.
NextFetch ==
  \/ QueryResolve
  \/ PopulateFinish
  \/ QueryReject
  \/ SubscribeResolve
  \/ \E h \in Handlers : HandlerResume(h)
  \/ \E i \in Ids, ch \in Changes : ServerChange(i, ch)
  \/ Call("getIndexedBufferedData")
  \/ \E i \in Ids, ok1 \in BOOLEAN, ok2 \in BOOLEAN : Fetch(i, ok1, ok2)

SpecFetch == Init /\ [][NextFetch]_vars

\* --------------------------------------------------------- the remote store
MaxParse == 2       \* Parse.Object instances allocated in one behaviour

\* A document attribute as the store keeps it: a Parse.Object becomes a
\* pointer (class, identifier); undefined values are not sent.
Pointer(heap, v) ==
  IF v.t = "doc"
  THEN [t |-> "pointer", className |-> heap[v.ref].className, id |-> heap[v.ref].id]
  ELSE v
Encode(heap, attrs) ==
  [k \in {j \in DOMAIN attrs : attrs[j].t # "undefined"} |->
     IF attrs[k].t = "array"
     THEN Arr([n \in DOMAIN attrs[k].elems |-> Pointer(heap, attrs[k].elems[n])])
     ELSE Pointer(heap, attrs[k])]

\* The Parse.Objects without an identifier that obj.save() saves with the
\* object at address p: p itself and the objects its attributes hold.
Unsaved(heap, p) ==
  {n \in DOMAIN heap :
     /\ heap[n].id = 0
     /\ \/ n = p
        \/ \E k \in DOMAIN heap[p].attrs :
              LET v == heap[p].attrs[k]
              IN \/ v = DocRef(n)
                 \/ v.t = "array" /\ \E j \in DOMAIN v.elems : v.elems[j] = DocRef(n)}

\* The heap after the store assigned identifiers to the objects of S, in
\* the order of their addresses, the first being first.
RECURSIVE Identify(_, _, _)
Identify(heap, S, first) ==
  IF S = {} THEN heap
  ELSE LET n == CHOOSE x \in S : \A y \in S : x <= y
       IN Identify([heap EXCEPT ![n].id = first], S \ {n}, first + 1)

\* obj.save() accepted by the store, for the object at address p: the new
\* heap and the new documents of the store.  A document is created for
\* each object without an identifier, the document of an object that has
\* one is rewritten.
Persist(heap, docs, p) ==
  LET new == Unsaved(heap, p)
      heap2 == Identify(heap, new, Len(docs) + 1)
      doc(n) == [className |-> heap2[n].className,
                 attrs |-> Encode(heap2, heap2[n].attrs), deleted |-> FALSE]
  IN [heap |-> heap2,
      docs |-> [i \in 1..(Len(docs) + Cardinality(new)) |->
                  IF i > Len(docs)
                  THEN doc(CHOOSE n \in new : heap2[n].id = i)
                  ELSE IF i = heap2[p].id THEN doc(p)
                  ELSE docs[i]]]

\* The store accepts a write to the object at address p unless the caller
\* loses (ok is false) or the object's document has been deleted.
Accepts(heap, docs, p, ok) ==
  ok /\ (heap[p].id # 0 => ~docs[heap[p].id].deleted)

\* ------------------------------------------------------------------- save
\* The caller assigns the field name of a domain object.
NameValues == {Undef, Scalar("X")}
Assign(x, v) ==
  /\ Get(objects[x], "name") # v
  /\ objects' = [objects EXCEPT ![x] = SetAttr(objects[x], "name", v)]
  /\ UNCHANGED <<parse, remote, inflight, opRes>>
  /\ UNCHANGED bufferVars

\* save(entityObject) up to its await: mappings, then parseObject.save().
SaveCall(x) ==
  LET m == mappings(parse, classname, objects[x])
      p == IF m.ref = 0 THEN Len(parse) + 1 ELSE m.ref
  IN /\ m.ref = 0 => Len(parse) < MaxParse
     /\ parse' = IF m.ref = 0 THEN Append(parse, m.obj)
                 ELSE [parse EXCEPT ![m.ref] = m.obj]
     /\ inflight' = inflight \cup {[op |-> "save", x |-> x, p |-> p]}
     /\ UNCHANGED <<remote, objects, opRes>>
     /\ UNCHANGED bufferVars

\* The rest of save once the store answered: a rejection is turned into
\* undefined and entityObject is returned as it is; otherwise the saved
\* Parse.Object becomes entityObject.entity.
\* (SaveSettleDetach: the variant that clears the handle on a rejection.)
SaveSettleDetach(r, ok) ==
  /\ r \in inflight /\ r.op = "save"
  /\ inflight' = inflight \ {r}
  /\ IF Accepts(parse, remote, r.p, ok)
     THEN LET done == Persist(parse, remote, r.p)
          IN /\ parse' = done.heap
             /\ remote' = done.docs
             /\ objects' = [objects EXCEPT
                              ![r.x] = SetAttr(objects[r.x], "entity", DocRef(r.p))]
     ELSE /\ objects' = [objects EXCEPT
                           ![r.x] = SetAttr(objects[r.x], "entity", Undef)]
          /\ UNCHANGED <<parse, remote>>
  /\ opRes' = [op |-> "save", x |-> r.x, kind |-> "returned", obj |-> Undef,
               err |-> ~Accepts(parse, remote, r.p, ok), calls |-> 1,
               arg |-> << >>]
  /\ UNCHANGED bufferVars
SaveSettle(r, ok) ==
  /\ r \in inflight /\ r.op = "save"
  /\ inflight' = inflight \ {r}
  /\ IF Accepts(parse, remote, r.p, ok)
     THEN LET done == Persist(parse, remote, r.p)
          IN /\ parse' = done.heap
             /\ remote' = done.docs
             /\ objects' = [objects EXCEPT
                              ![r.x] = SetAttr(objects[r.x], "entity", DocRef(r.p))]
     ELSE UNCHANGED <<parse, remote, objects>>
  /\ opRes' = [op |-> "save", x |-> r.x, kind |-> "returned", obj |-> Undef,
               err |-> ~Accepts(parse, remote, r.p, ok), calls |-> 1,
               arg |-> << >>]
  /\ UNCHANGED bufferVars

\* ---------------------------------------------------------------- destroy
\* destroy(entityObject) up to its await: without a handle it throws
\* "Entity not found"; with one it calls entity.destroy().
DestroyCall(x) ==
  /\ IF Nullish(Get(objects[x], "entity"))
     THEN /\ opRes' = [op |-> "destroy", x |-> x, kind |-> "raised",
                       obj |-> Undef, err |-> FALSE, calls |-> 0,
               arg |-> << >>]
          /\ UNCHANGED inflight
     ELSE /\ inflight' = inflight \cup
                   {[op |-> "destroy", x |-> x, p |-> objects[x]["entity"].ref]}
          /\ UNCHANGED opRes
  /\ UNCHANGED <<parse, remote, objects>>
  /\ UNCHANGED bufferVars

\* The rest of destroy: the deleted document is hydrated and returned; a
\* rejection is thrown again as Error("Error in deleting entity").
\* (DestroySettleSwallow: the variant that returns undefined instead;
\* DestroySettleEvict: the variant that also deletes the key of the
\* document from the cache.)
DestroySettleSwallow(r, ok) ==
  /\ r \in inflight /\ r.op = "destroy"
  /\ inflight' = inflight \ {r}
  /\ IF Accepts(parse, remote, r.p, ok)
     THEN /\ remote' = [remote EXCEPT ![parse[r.p].id].deleted = TRUE]
          /\ opRes' = [op |-> "destroy", x |-> r.x, kind |-> "returned",
                       obj |-> mapParseObject(parse, DocRef(r.p), 0, DefaultMaxDeep),
                       err |-> FALSE, calls |-> 1,
               arg |-> << >>]
     ELSE /\ opRes' = [op |-> "destroy", x |-> r.x, kind |-> "returned",
                       obj |-> Undef, err |-> TRUE, calls |-> 1,
               arg |-> << >>]
          /\ UNCHANGED remote
  /\ UNCHANGED <<parse, objects>>
  /\ UNCHANGED bufferVars
DestroySettleEvict(r, ok) ==
  /\ r \in inflight /\ r.op = "destroy"
  /\ inflight' = inflight \ {r}
  /\ IF Accepts(parse, remote, r.p, ok)
     THEN /\ remote' = [remote EXCEPT ![parse[r.p].id].deleted = TRUE]
          /\ dataBuffer' = Remove(dataBuffer, parse[r.p].id)
          /\ opRes' = [op |-> "destroy", x |-> r.x, kind |-> "returned",
                       obj |-> mapParseObject(parse, DocRef(r.p), 0, DefaultMaxDeep),
                       err |-> FALSE, calls |-> 1,
               arg |-> << >>]
     ELSE /\ opRes' = [op |-> "destroy", x |-> r.x, kind |-> "raised",
                       obj |-> Undef, err |-> TRUE, calls |-> 1,
               arg |-> << >>]
          /\ UNCHANGED <<remote, dataBuffer>>
  /\ UNCHANGED <<parse, objects>>
  /\ UNCHANGED <<classname, session, server, nEvents, dataBufferDefined,
                 dataBufferP, externalSubscriptionP, parseSubscription, query,
                 rows, subscribeCall, pending, lastEmit, reader, fetchRes,
                 seqIds, unsubCalled>>
DestroySettle(r, ok) ==
  /\ r \in inflight /\ r.op = "destroy"
  /\ inflight' = inflight \ {r}
  /\ IF Accepts(parse, remote, r.p, ok)
     THEN /\ remote' = [remote EXCEPT ![parse[r.p].id].deleted = TRUE]
          /\ opRes' = [op |-> "destroy", x |-> r.x, kind |-> "returned",
                       obj |-> mapParseObject(parse, DocRef(r.p), 0, DefaultMaxDeep),
                       err |-> FALSE, calls |-> 1,
               arg |-> << >>]
     ELSE /\ opRes' = [op |-> "destroy", x |-> r.x, kind |-> "raised",
                       obj |-> Undef, err |-> TRUE, calls |-> 1,
               arg |-> << >>]
          /\ UNCHANGED remote
  /\ UNCHANGED <<parse, objects>>
  /\ UNCHANGED bufferVars

\* -------------------------------------------------------------- duplicate
\* duplicate(entityObject) with duplicateAttributes = false: a copy of the
\* own properties, entity deleted.  It is put in the caller's variable y.
\* (DuplicateSpread: the variant that is only the spread {...entityObject}.)
DuplicateSpread(x, y) ==
  /\ x # y
  /\ ~\E r \in inflight : r.x = y
  /\ objects' = [objects EXCEPT ![y] = objects[x]]
  /\ opRes' = [op |-> "duplicate", x |-> x, kind |-> "returned",
               obj |-> PlainObject(objects'[y]), err |-> FALSE, calls |-> 0,
               arg |-> << >>]
  /\ UNCHANGED <<parse, remote, inflight>>
  /\ UNCHANGED bufferVars
Duplicate(x, y) ==
  /\ x # y
  /\ ~\E r \in inflight : r.x = y
  /\ objects' = [objects EXCEPT ![y] = UnsetAttr(objects[x], "entity")]
  /\ opRes' = [op |-> "duplicate", x |-> x, kind |-> "returned",
               obj |-> PlainObject(objects'[y]), err |-> FALSE, calls |-> 0,
               arg |-> << >>]
  /\ UNCHANGED <<parse, remote, inflight>>
  /\ UNCHANGED bufferVars

\* obj.entity && obj.entity.id
HasSavedEntity(heap, v) ==
  /\ v.t \in {"entity", "file", "object"}
  /\ Get(v.o, "entity").t = "doc"
  /\ heap[v.o["entity"].ref].id # 0

\* (obj.entity as Parse.Object).clone(): a new Parse.Object of the same
\* class with the same attributes and no identifier.
Clone(heap, n) == [heap[n] EXCEPT !.id = 0]

\* The array branch of the deep duplicate: every element with a saved
\* entity is replaced by a clone of that entity, the others are kept.
\* The result is the heap with the clones and the new array.
RECURSIVE duplicateElements(_, _, _)
duplicateElements(heap, elems, arr) ==
  IF elems = << >> THEN [heap |-> heap, value |-> Arr(arr)]
  ELSE LET obj == Head(elems)
       IN IF HasSavedEntity(heap, obj)
          THEN duplicateElements(Append(heap, Clone(heap, obj.o["entity"].ref)),
                                 Tail(elems), Append(arr, DocRef(Len(heap) + 1)))
          ELSE duplicateElements(heap, Tail(elems), Append(arr, obj))

\* The loop of the deep duplicate over the properties props of
\* entityObject: falsy values are skipped, the properties of toKeep are
\* set as they are, the others with clones of the saved entities.
RECURSIVE duplicateProperties(_, _, _, _, _)
duplicateProperties(heap, entityObject, props, toKeep, attrs) ==
  IF props = {} THEN [heap |-> heap, attrs |-> attrs]
  ELSE
  LET property == CHOOSE q \in props : TRUE
      v == entityObject[property]
      rest == props \ {property}
  IN IF ~Truthy(v)
     THEN duplicateProperties(heap, entityObject, rest, toKeep, attrs)
     ELSE IF toKeep # {} /\ property \in toKeep
     THEN duplicateProperties(heap, entityObject, rest, toKeep,
                              SetAttr(attrs, property, v))
     ELSE IF v.t = "array"
     THEN LET d == duplicateElements(heap, v.elems, << >>)
          IN duplicateProperties(d.heap, entityObject, rest, toKeep,
                                 SetAttr(attrs, property, d.value))
     ELSE IF HasSavedEntity(heap, v)
     THEN duplicateProperties(Append(heap, Clone(heap, v.o["entity"].ref)),
                              entityObject, rest, toKeep,
                              SetAttr(attrs, property, DocRef(Len(heap) + 1)))
     ELSE duplicateProperties(heap, entityObject, rest, toKeep,
                              SetAttr(attrs, property, v))

\* duplicate(entityObject, true, toKeep) up to its await: the heap with
\* the clones and, last, the new Parse.Object that is saved.
\* (duplicateOntoHandle: the variant that writes to the handle of
\* entityObject when it has one.)
duplicateOntoHandle(heap, c, entityObject, toKeep) ==
  LET d == duplicateProperties(heap, entityObject,
                               DOMAIN entityObject \ {"entity"}, toKeep, << >>)
  IN IF Nullish(Get(entityObject, "entity"))
     THEN Append(d.heap, [NewParseObject(c) EXCEPT !.attrs = d.attrs])
     ELSE Append([d.heap EXCEPT ![entityObject["entity"].ref].attrs = d.attrs],
                 heap[entityObject["entity"].ref])
duplicate(heap, c, entityObject, toKeep) ==
  LET d == duplicateProperties(heap, entityObject,
                               DOMAIN entityObject \ {"entity"}, toKeep, << >>)
  IN Append(d.heap, [NewParseObject(c) EXCEPT !.attrs = d.attrs])

\* The toKeep arguments the callers of the model pass.
ToKeeps == {{}, {"name"}}

DuplicateDeepCall(x, toKeep) ==
  LET heap == duplicate(parse, classname, objects[x], toKeep)
  IN /\ Len(heap) <= MaxParse
     /\ parse' = heap
     /\ inflight' = inflight \cup {[op |-> "duplicate", x |-> x, p |-> Len(heap)]}
     /\ UNCHANGED <<remote, objects, opRes>>
     /\ UNCHANGED bufferVars

\* The rest of the deep duplicate: a rejection of the store is thrown to
\* the caller; otherwise the saved document is hydrated and returned.
DuplicateDeepSettle(r, ok) ==
  /\ r \in inflight /\ r.op = "duplicate"
  /\ inflight' = inflight \ {r}
  /\ IF Accepts(parse, remote, r.p, ok)
     THEN LET done == Persist(parse, remote, r.p)
          IN /\ parse' = done.heap
             /\ remote' = done.docs
             /\ opRes' = [op |-> "duplicateDeep", x |-> r.x, kind |-> "returned",
                          obj |-> mapParseObject(done.heap, DocRef(r.p), 0,
                                                 DefaultMaxDeep),
                          err |-> FALSE, calls |-> 1,
               arg |-> << >>]
     ELSE /\ opRes' = [op |-> "duplicateDeep", x |-> r.x, kind |-> "raised",
                       obj |-> Undef, err |-> TRUE, calls |-> 1,
               arg |-> << >>]
          /\ UNCHANGED <<parse, remote>>
  /\ UNCHANGED objects
  /\ UNCHANGED bufferVars

\* The store calls that can be in flight.
Requests == [op : {"save", "saveMany", "destroy", "duplicate"}, x : ObjNames, p : 1..MaxParse]

\* The writes are made by a logged-in caller of the facade of _Role, the
\* one facade the repository constructs (ParseRoleManger).
InitPersist == Init /\ session /\ classname = "_Role"

\* A caller that assigns and saves the object a, without waiting for one
\* save to return before it starts the next.
NextSave ==
  \/ \E v \in NameValues : Assign("a", v)
  \/ SaveCall("a")
  \/ \E r \in Requests, ok \in BOOLEAN : SaveSettle(r, ok)

SpecSave == InitPersist /\ [][NextSave]_vars

\* A caller that saves and destroys the object a.
NextDestroy ==
  \/ SaveCall("a")
  \/ \E r \in Requests, ok \in BOOLEAN : SaveSettle(r, ok)
  \/ DestroyCall("a")
  \/ \E r \in Requests, ok \in BOOLEAN : DestroySettle(r, ok)

SpecDestroy == InitPersist /\ [][NextDestroy]_vars

\* A caller that saves a and b, and makes b a shallow duplicate of a.
NextDuplicate ==
  \/ \E v \in NameValues : Assign("a", v)
  \/ \E x \in ObjNames : SaveCall(x)
  \/ \E r \in Requests, ok \in BOOLEAN : SaveSettle(r, ok)
  \/ Duplicate("a", "b")

SpecDuplicate == InitPersist /\ [][NextDuplicate]_vars

\* A caller that saves a and duplicates it on the store.
NextDuplicateDeep ==
  \/ \E v \in NameValues : Assign("a", v)
  \/ SaveCall("a")
  \/ \E r \in Requests, ok \in BOOLEAN : SaveSettle(r, ok)
  \/ \E toKeep \in ToKeeps : DuplicateDeepCall("a", toKeep)
  \/ \E r \in Requests, ok \in BOOLEAN : DuplicateDeepSettle(r, ok)

SpecDuplicateDeep == InitPersist /\ [][NextDuplicateDeep]_vars

\* A caller that saves a and duplicates it on the store; the name of a
\* is a string, the empty string included.
NextDuplicateFalsy ==
  \/ \E v \in {Scalar(""), Scalar("X")} : Assign("a", v)
  \/ SaveCall("a")
  \/ \E r \in Requests, ok \in BOOLEAN : SaveSettle(r, ok)
  \/ \E toKeep \in ToKeeps : DuplicateDeepCall("a", toKeep)
  \/ \E r \in Requests, ok \in BOOLEAN : DuplicateDeepSettle(r, ok)

SpecDuplicateFalsy == InitPersist /\ [][NextDuplicateFalsy]_vars

\* ------------------------------------------------- flatten and hydrate
\* Parse.Objects the caller holds before it flattens: a saved role, a
\* saved user, and the document that is the handle of the object a when
\* a has one (it holds what an earlier save of a has set).
RefHeap ==
  << [className |-> "_Role", id |-> 1, attrs |-> [name |-> Scalar("r")]],
     [className |-> "_User", id |-> 2,
      attrs |-> [username |-> Scalar("u"), email |-> Scalar("e")]],
     [className |-> "_Role", id |-> 3,
      attrs |-> [classname |-> Scalar("_Role"), name |-> Scalar("old"),
                 owner |-> DocRef(1), entityProperties |-> Names({"owner"}),
                 entityArrayProperties |-> Names({})]] >>

\* The values a field of the flattened object holds.
FlattenValues ==
  {Undef, Null, Scalar("X"), Scalar(""),
   Entity([entity |-> DocRef(1), name |-> Scalar("r")]),
   Entity([name |-> Scalar("new")]),
   EntityFile([entity |-> ParseFile("f"), name |-> Scalar("f"), url |-> Scalar("f")]),
   mapParseUserToUser(RefHeap, 2),
   DocRef(1), ParseFile("f"),
   Arr(<< >>), Arr(<<Scalar("X")>>),
   Arr(<<Entity([entity |-> DocRef(1), name |-> Scalar("r")])>>)}

\* The object a: an instance of the facade's type with the fields name
\* and owner assigned, users cleared or not, with or without a handle.
InitFlatten ==
  /\ InitBuffer /\ session
  /\ parse = RefHeap
  /\ remote = << >>
  /\ inflight = {}
  /\ opRes = NoOp
  /\ \E v \in FlattenValues, w \in FlattenValues, e \in {Undef, DocRef(3)},
        u \in {Undef, Arr(<< >>)} :
       LET o == SetAttr(SetAttr(SetAttr(NewInstance(classname), "users", u),
                                "name", v), "owner", w)
       IN objects = [x \in ObjNames |->
                      IF x # "a" THEN NewInstance(classname)
                      ELSE IF e = Undef THEN o ELSE SetAttr(o, "entity", e)]

\* mappings(entityObject) applied to the caller's object x.
Flatten(x) ==
  LET m == mappings(parse, classname, objects[x])
      p == IF m.ref = 0 THEN Len(parse) + 1 ELSE m.ref
  IN /\ opRes.op = "none"
     /\ parse' = IF m.ref = 0 THEN Append(parse, m.obj)
                 ELSE [parse EXCEPT ![m.ref] = m.obj]
     /\ opRes' = [op |-> "mappings", x |-> x, kind |-> "returned",
                  obj |-> DocRef(p), err |-> FALSE, calls |-> 0,
                  arg |-> << >>]
     /\ UNCHANGED <<remote, objects, inflight>>
     /\ UNCHANGED bufferVars

\* mapParseAttributesToEntityObject(parseObject) applied to the document
\* that mappings returned.
HydrateFlattened ==
  /\ opRes.op = "mappings"
  /\ opRes' = [op |-> "hydrate", x |-> opRes.x, kind |-> "returned",
               obj |-> mapParseObject(parse, opRes.obj, 0, DefaultMaxDeep),
               err |-> FALSE, calls |-> 0,
               arg |-> <<opRes.obj>>]
  /\ UNCHANGED <<parse, remote, objects, inflight>>
  /\ UNCHANGED bufferVars

NextFlatten ==
  \/ Flatten("a")
  \/ HydrateFlattened

SpecFlatten == InitFlatten /\ [][NextFlatten]_vars

\* ---------------------------------------------------- hydration by depth
ChainLinks == 3     \* references followed from the first document
MaxDepth == 3       \* largest deepLevel and maxDeep a caller passes

\* A chain of documents: document i refers to document i + 1 through the
\* attribute parent (a Parse.Object) or through the attribute roles (an
\* array of Parse.Objects).  Every document has a name and a logo.
LinkKinds == {"single", "array"}
LastClasses == {"_Role", "_User"}
ChainHeap(links, last) ==
  [i \in 1..(Len(links) + 1) |->
     [className |-> IF i = Len(links) + 1 THEN last ELSE "_Role",
      id |-> i,
      attrs |->
        IF i > Len(links)
        THEN [name |-> Scalar("n"), logo |-> ParseFile("f")]
        ELSE IF links[i] = "single"
        THEN [name |-> Scalar("n"), logo |-> ParseFile("f"), parent |-> DocRef(i + 1)]
        ELSE [name |-> Scalar("n"), logo |-> ParseFile("f"),
              roles |-> Arr(<<DocRef(i + 1)>>)]]]

InitHydrate ==
  /\ InitBuffer /\ session /\ classname = "_Role"
  /\ \E links \in [1..ChainLinks -> LinkKinds], last \in LastClasses :
       parse = ChainHeap(links, last)
  /\ remote = << >>
  /\ objects = [x \in ObjNames |-> NewInstance(classname)]
  /\ inflight = {}
  /\ opRes = NoOp

\* mapParseAttributesToEntityObject(parseElement, deepLevel, maxDeep) on
\* the document at address n.
Hydrate(n, deepLevel, maxDeep) ==
  /\ n \in DOMAIN parse
  /\ opRes' = [op |-> "hydrate", x |-> "none", kind |-> "returned",
               obj |-> mapParseObject(parse, DocRef(n), deepLevel, maxDeep),
               err |-> FALSE, calls |-> 0,
               arg |-> <<DocRef(n), deepLevel, maxDeep>>]
  /\ UNCHANGED <<parse, remote, objects, inflight>>
  /\ UNCHANGED bufferVars

\* mapParseArrayOfAttributesToEntityObject(parseElements, 0, maxDeep) on
\* the rows of a bulk query: the first n documents.
HydrateArray(n, maxDeep) ==
  /\ n \in DOMAIN parse
  /\ opRes' = [op |-> "hydrateArray", x |-> "none", kind |-> "returned",
               obj |-> mapParseArrayOfAttributesToEntityObject(
                         parse, [j \in 1..n |-> DocRef(j)], 0, maxDeep),
               err |-> FALSE, calls |-> 0,
               arg |-> <<Arr([j \in 1..n |-> DocRef(j)]), 0, maxDeep>>]
  /\ UNCHANGED <<parse, remote, objects, inflight>>
  /\ UNCHANGED bufferVars

NextHydrate ==
  \/ \E n \in 1..(ChainLinks + 1), d \in 0..MaxDepth, m \in 0..MaxDepth :
       Hydrate(n, d, m)
  \/ \E n \in 1..(ChainLinks + 1), m \in 0..MaxDepth : HydrateArray(n, m)

SpecHydrate == InitHydrate /\ [][NextHydrate]_vars

\* ---------------------------------------------------- hydration of graphs
\* Three _Role documents in a line of single references (1 -> 2 -> 3 -> 4),
\* the fourth holding a reference array with the fifth document, whose
\* class varies, and possibly a reference back to an earlier document:
\* a cycle that passes through the array.
OddClasses == {"_Role", "_User", "File", "Task"}
BackRefs == {0, 1, 4}          \* 0: the array refers back to nothing
GraphHeap(odd, back, oddFirst) ==
  LET line(i) == [className |-> "_Role", id |-> i,
                  attrs |-> [name |-> Scalar("n"), parent |-> DocRef(i + 1)]]
      elems == IF back = 0 THEN <<DocRef(5)>>
               ELSE IF oddFirst THEN <<DocRef(5), DocRef(back)>>
               ELSE <<DocRef(back), DocRef(5)>>
  IN <<line(1), line(2), line(3),
       [className |-> "_Role", id |-> 4,
        attrs |-> [name |-> Scalar("n"), roles |-> Arr(elems)]],
       [className |-> odd, id |-> 5,
        attrs |-> [name |-> Scalar("n"), username |-> Scalar("u"),
                   email |-> Scalar("e"), role |-> Scalar("r"),
                   logo |-> ParseFile("f"), parent |-> DocRef(1)]]>>

\* Maximum depths a caller passes: up to two beyond the default of the
\* element hydration.
GraphDepths == 0..(DefaultMaxDeep + 2)

InitGraph ==
  /\ InitBuffer /\ session /\ classname = "_Role"
  /\ \E odd \in OddClasses, back \in BackRefs, oddFirst \in BOOLEAN :
       parse = GraphHeap(odd, back, oddFirst)
  /\ remote = << >>
  /\ objects = [x \in ObjNames |-> NewInstance(classname)]
  /\ inflight = {}
  /\ opRes = NoOp

NextGraph ==
  \/ \E n \in DOMAIN parse, d \in GraphDepths, m \in GraphDepths : Hydrate(n, d, m)
  \/ \E n \in DOMAIN parse, m \in GraphDepths : HydrateArray(n, m)

SpecGraph == InitGraph /\ [][NextGraph]_vars

\* ------------------------------------------------ reference arrays
MaxArray == 2       \* longest array a document holds or a caller desires

\* The Parse.Objects of a caller that edits the roles of a saved role:
\* the role itself (address 1), two saved roles, a second instance of
\* the role with identifier 2, and a role never saved.
DiffHeap(held) ==
  LET role(i) == [className |-> "_Role", id |-> i, attrs |-> [name |-> Scalar("n")]]
  IN << [className |-> "_Role", id |-> 1,
         attrs |-> IF held = Undef THEN [name |-> Scalar("n")]
                   ELSE [name |-> Scalar("n"), roles |-> held]],
        role(2), role(3), role(2), role(0) >>

\* The documents of the store for that heap.
DiffDocs(heap) ==
  [i \in 1..3 |-> [className |-> heap[i].className,
                   attrs |-> Encode(heap, heap[i].attrs), deleted |-> FALSE]]

\* What the role's document holds in roles, and what the caller wants
\* it to hold: domain objects with their handles.
HeldArrays ==
  {Undef} \cup {Arr(s) : s \in UNION {[1..k -> {DocRef(2), DocRef(3)}] : k \in 0..MaxArray}}
DesiredArrays ==
  {Arr(s) : s \in UNION {[1..k -> {Entity([entity |-> DocRef(n)]) : n \in 2..5}] :
                          k \in 0..MaxArray}}

InitDiff ==
  /\ InitBuffer /\ session /\ classname = "_Role"
  /\ \E held \in HeldArrays :
       /\ parse = DiffHeap(held)
       /\ remote = DiffDocs(DiffHeap(held))
  /\ \E desired \in DesiredArrays :
       objects = [x \in ObjNames |->
                   SetAttr(SetAttr(NewInstance(classname), "roles", desired),
                           "entity", DocRef(1))]
  /\ inflight = {}
  /\ opRes = NoOp

\* The properties that the loop of mappings handles before the given
\* one: Role declares users before roles.
PropertiesBefore(property) == IF property = "roles" THEN {"users"} ELSE {}

\* The elements of an array property in handle form.
Handles(entityObject, property) ==
  LET elems == entityObject[property].elems
  IN [n \in DOMAIN elems |-> mapTypescriptAttributeToParseObjectAttribute(elems[n])]

\* The attributes of the handle of entityObject when call number failAt
\* on the given array property reported no document and mappings threw:
\* the properties before it are mapped, the calls before failAt are
\* applied, nothing else is written.
mappingsRaising(heap, entityObject, property, failAt) ==
  LET attrs == heap[entityObject["entity"].ref].attrs
      full == mapProperties(heap, entityObject, attrs)
      ops == arrayOps(heap, Get(attrs, property), Handles(entityObject, property))
      before == PropertiesBefore(property) \cap DOMAIN entityObject
  IN [k \in (DOMAIN attrs \ (before \ DOMAIN full)) \cup (before \cap DOMAIN full) |->
        IF k = property
        THEN applyOps(heap, attrs[k], SubSeq(ops, 1, failAt - 1))
        ELSE IF k \in before THEN full[k]
        ELSE attrs[k]]

\* save(entityObject) up to its await, for an object with a handle:
\* mappings, where call number failAt on roles, an addUnique or a remove,
\* reports no document (0: none does), then parseObject.save().
\* (SaveCallArraySwallow: the variant that carries on after a call that
\* reported no document.)
SaveCallArraySwallow(x, failAt) ==
  LET h == objects[x]["entity"].ref
      held == Get(parse[h].attrs, "roles")
      ops == arrayOps(parse, held, Handles(objects[x], "roles"))
      m == mappings(parse, classname, objects[x])
  IN /\ failAt \in 0..Len(ops)
     /\ failAt # 0 => ops[failAt].op \in {"addUnique", "remove"}
     /\ parse' = [parse EXCEPT ![h] = m.obj]
     /\ inflight' = inflight \cup {[op |-> "save", x |-> x, p |-> h]}
     /\ opRes' = [op |-> "saveCall", x |-> x,
                  kind |-> "awaiting",
                  obj |-> DocRef(h), err |-> failAt # 0, calls |-> 1,
                  arg |-> <<held, ops, failAt>>]
     /\ UNCHANGED <<remote, objects>>
     /\ UNCHANGED bufferVars
SaveCallArray(x, failAt) ==
  LET h == objects[x]["entity"].ref
      held == Get(parse[h].attrs, "roles")
      ops == arrayOps(parse, held, Handles(objects[x], "roles"))
      m == mappings(parse, classname, objects[x])
  IN /\ failAt \in 0..Len(ops)
     /\ failAt # 0 => ops[failAt].op \in {"addUnique", "remove"}
     /\ IF failAt = 0
        THEN /\ parse' = [parse EXCEPT ![h] = m.obj]
             /\ inflight' = inflight \cup {[op |-> "save", x |-> x, p |-> h]}
        ELSE /\ parse' = [parse EXCEPT
                            ![h].attrs = mappingsRaising(parse, objects[x], "roles", failAt)]
             /\ UNCHANGED inflight
     /\ opRes' = [op |-> "saveCall", x |-> x,
                  kind |-> IF failAt = 0 THEN "awaiting" ELSE "raised",
                  obj |-> DocRef(h), err |-> failAt # 0,
                  calls |-> IF failAt = 0 THEN 1 ELSE 0,
                  arg |-> <<held, ops, failAt>>]
     /\ UNCHANGED <<remote, objects>>
     /\ UNCHANGED bufferVars

\* saveMany([entityObject]) up to its await: mappings of each object,
\* then Parse.Object.saveAll.
SaveManyCall(x, failAt) ==
  LET h == objects[x]["entity"].ref
      held == Get(parse[h].attrs, "roles")
      ops == arrayOps(parse, held, Handles(objects[x], "roles"))
      m == mappings(parse, classname, objects[x])
  IN /\ failAt \in 0..Len(ops)
     /\ failAt # 0 => ops[failAt].op \in {"addUnique", "remove"}
     /\ IF failAt = 0
        THEN /\ parse' = [parse EXCEPT ![h] = m.obj]
             /\ inflight' = inflight \cup {[op |-> "saveMany", x |-> x, p |-> h]}
        ELSE /\ parse' = [parse EXCEPT
                            ![h].attrs = mappingsRaising(parse, objects[x], "roles", failAt)]
             /\ UNCHANGED inflight
     /\ opRes' = [op |-> "saveManyCall", x |-> x,
                  kind |-> IF failAt = 0 THEN "awaiting" ELSE "raised",
                  obj |-> DocRef(h), err |-> failAt # 0,
                  calls |-> IF failAt = 0 THEN 1 ELSE 0,
                  arg |-> <<held, ops, failAt>>]
     /\ UNCHANGED <<remote, objects>>
     /\ UNCHANGED bufferVars

\* The rest of saveMany once the store answered: a rejection is raised
\* as "Cannot save objects"; otherwise the saved Parse.Objects are
\* hydrated to the given depth and returned.  No input object is
\* written.
SaveManySettle(r, ok, returnMappingDeepness) ==
  /\ r \in inflight /\ r.op = "saveMany"
  /\ inflight' = inflight \ {r}
  /\ IF Accepts(parse, remote, r.p, ok)
     THEN LET done == Persist(parse, remote, r.p)
          IN /\ parse' = done.heap
             /\ remote' = done.docs
             /\ opRes' = [op |-> "saveMany", x |-> r.x, kind |-> "returned",
                          obj |-> Arr(<<mapParseObject(done.heap, DocRef(r.p), 0,
                                                      returnMappingDeepness)>>),
                          err |-> FALSE, calls |-> 1, arg |-> << >>]
     ELSE /\ opRes' = [op |-> "saveMany", x |-> r.x, kind |-> "raised",
                       obj |-> Undef, err |-> TRUE, calls |-> 1, arg |-> << >>]
          /\ UNCHANGED <<parse, remote>>
  /\ UNCHANGED objects
  /\ UNCHANGED bufferVars

\* Two writers hold the role with the array the store has; one desires
\* the roles of x, the other the array desired.  Each computes its calls
\* against that array; the store applies the calls of one and then of
\* the other (ab, ba), and the calls of the first once more (aba).
\* The writers are taken before either has written anything.
TwoWriters(x, desired) ==
  LET h == objects[x]["entity"].ref
      held == Get(parse[h].attrs, "roles")
      opsA == arrayOps(parse, held, Handles(objects[x], "roles"))
      opsB == arrayOps(parse, held, Handles([roles |-> desired], "roles"))
  IN /\ opRes.op = "none" /\ inflight = {}
     /\ Encode(parse, parse[h].attrs) = remote[parse[h].id].attrs
     /\ opRes' = [op |-> "writers", x |-> x, kind |-> "returned",
                  obj |-> [t |-> "outcomes",
                           ab |-> applyOps(parse, applyOps(parse, held, opsA), opsB),
                           ba |-> applyOps(parse, applyOps(parse, held, opsB), opsA),
                           aba |-> applyOps(parse, applyOps(parse,
                                     applyOps(parse, held, opsA), opsB), opsA)],
                  err |-> FALSE, calls |-> 0,
                  arg |-> <<held, opsA, opsB>>]
     /\ UNCHANGED <<parse, remote, objects, inflight>>
     /\ UNCHANGED bufferVars

NextDiff ==
  \/ \E failAt \in 0..(2 * MaxArray) : SaveCallArray("a", failAt)
  \/ \E r \in Requests, ok \in BOOLEAN : SaveSettle(r, ok)
  \/ \E failAt \in 0..(2 * MaxArray) : SaveManyCall("a", failAt)
  \/ \E r \in Requests, ok \in BOOLEAN, d \in {DefaultArrayMaxDeep} :
       SaveManySettle(r, ok, d)

SpecDiff == InitDiff /\ [][NextDiff]_vars

\* Two writers of one stored array.
NextWriters == \E desired \in DesiredArrays : TwoWriters("a", desired)

SpecWriters == InitDiff /\ [][NextWriters]_vars

\* ----------------------------------------------------- one-shot reads
\* this.queryLimit
queryLimit == 100000

\* The store holds the documents of a graph, some of them deleted; a
\* query answers with the Parse.Objects of the graph.
InitRead ==
  /\ InitBuffer /\ session /\ classname = "_Role"
  /\ \E odd \in OddClasses, back \in BackRefs, gone \in SUBSET {1, 5} :
       LET heap == GraphHeap(odd, back, FALSE)
       IN /\ parse = heap
          /\ remote = [i \in DOMAIN heap |->
                         [className |-> heap[i].className,
                          attrs |-> Encode(heap, heap[i].attrs),
                          deleted |-> i \in gone]]
  /\ objects = [x \in ObjNames |-> NewInstance(classname)]
  /\ inflight = {}
  /\ opRes = NoOp

\* new Parse.Query(this.classname): the identifiers of the documents of
\* the facade's class that the store has, in order.
Matching(docs) ==
  Filter([i \in DOMAIN docs |-> i],
         [i \in DOMAIN docs |-> docs[i].className = classname /\ ~docs[i].deleted])

\* query.limit(n).find()
Find(docs, n) ==
  LET ids == Matching(docs)
  IN [j \in 1..(IF n < Len(ids) THEN n ELSE Len(ids)) |-> DocRef(ids[j])]

\* { ...value }: the own fields of an object, nothing for undefined.
Spread(v) ==
  IF v.t \in {"entity", "object", "file"} THEN PlainObject(v.o) ELSE PlainObject(<< >>)

\* getAll, getAllWithSubclasses and getAllWithIncludes up to the first
\* await: the count query.  The caller awaits one call before the next.
GetAllVariants == {"getAll", "getAllWithSubclasses", "getAllWithIncludes"}
GetAllCall(v) ==
  /\ inflight = {}
  /\ inflight' = {[op |-> v, pc |-> "count", limit |-> 0]}
  /\ opRes' = [op |-> v, x |-> "none", kind |-> "awaiting", obj |-> Undef,
               err |-> FALSE, calls |-> 1, arg |-> <<<<"count">>, 0, 0>>]
  /\ UNCHANGED <<parse, remote, objects>>
  /\ UNCHANGED bufferVars

\* The count query settled: its result, or queryLimit when it was
\* rejected, is the limit of the find that is issued now.
\* (CountSettleNoFallback: the variant that has no limit to fall back
\* on.)
CountSettleNoFallback(r, ok) ==
  LET numberOfStuffToDownload == IF ok THEN Len(Matching(remote)) ELSE 0
  IN /\ r \in inflight /\ r.pc = "count"
     /\ inflight' = {[r EXCEPT !.pc = "find", !.limit = numberOfStuffToDownload]}
     /\ opRes' = [opRes EXCEPT !.calls = 2,
                    !.arg = <<<<"count", "find">>,
                              IF ok THEN Len(Matching(remote)) ELSE -1,
                              numberOfStuffToDownload>>]
     /\ UNCHANGED <<parse, remote, objects>>
     /\ UNCHANGED bufferVars
CountSettle(r, ok) ==
  LET numberOfStuffToDownload == IF ok THEN Len(Matching(remote)) ELSE queryLimit
  IN /\ r \in inflight /\ r.pc = "count"
     /\ inflight' = {[r EXCEPT !.pc = "find", !.limit = numberOfStuffToDownload]}
     /\ opRes' = [opRes EXCEPT !.calls = 2,
                    !.arg = <<<<"count", "find">>,
                              IF ok THEN Len(Matching(remote)) ELSE -1,
                              numberOfStuffToDownload>>]
     /\ UNCHANGED <<parse, remote, objects>>
     /\ UNCHANGED bufferVars

\* The find settled: its rows, or no rows when it was rejected, are
\* hydrated by the array form with its default arguments and returned.
FindSettle(r, ok) ==
  LET entityObjects == IF ok THEN Find(remote, r.limit) ELSE << >>
  IN /\ r \in inflight /\ r.pc = "find"
     /\ inflight' = {}
     /\ opRes' = [opRes EXCEPT
                    !.kind = "returned", !.err = ~ok,
                    !.obj = mapParseArrayOfAttributesToEntityObject(
                              parse, entityObjects, 0, DefaultArrayMaxDeep)]
     /\ UNCHANGED <<parse, remote, objects>>
     /\ UNCHANGED bufferVars

\* query.get(id) finds the document.
Got(i, ok) ==
  ok /\ i \in DOMAIN remote /\ remote[i].className = classname /\ ~remote[i].deleted

\* getFullObjectById(id) and fetchById(id): "Object not found." is
\* raised when query.get gave nothing; otherwise a spread copy of the
\* hydration from depth 0 with maximum depth 3 is returned.  The reads
\* share no state, so the caller's calls are taken one after another.
\* (GetFullObjectByIdShallow: the variant that hydrates with the maximum
\* depth of the array form.)
GetFullObjectByIdShallow(op, i, ok) ==
  /\ op \in {"getFullObjectById", "fetchById"}
  /\ inflight = {}
  /\ opRes' = [op |-> op, x |-> "none",
               kind |-> IF Got(i, ok) THEN "returned" ELSE "raised",
               obj |-> IF Got(i, ok)
                       THEN Spread(mapParseObject(parse, DocRef(i), 0, DefaultArrayMaxDeep))
                       ELSE Undef,
               err |-> ~ok, calls |-> 1, arg |-> <<i, ok>>]
  /\ UNCHANGED <<parse, remote, objects, inflight>>
  /\ UNCHANGED bufferVars
GetFullObjectById(op, i, ok) ==
  /\ op \in {"getFullObjectById", "fetchById"}
  /\ inflight = {}
  /\ opRes' = [op |-> op, x |-> "none",
               kind |-> IF Got(i, ok) THEN "returned" ELSE "raised",
               obj |-> IF Got(i, ok)
                       THEN Spread(mapParseObject(parse, DocRef(i), 0, DefaultMaxDeep))
                       ELSE Undef,
               err |-> ~ok, calls |-> 1, arg |-> <<i, ok>>]
  /\ UNCHANGED <<parse, remote, objects, inflight>>
  /\ UNCHANGED bufferVars

\* getFullObjectByIdWithIncludes(id, include, deepLevel): undefined when
\* query.get gave nothing; otherwise a spread copy of the hydration from
\* depth 0 with maximum depth deepLevel.
GetFullObjectByIdWithIncludes(i, deepLevel, ok) ==
  /\ inflight = {}
  /\ opRes' = [op |-> "getFullObjectByIdWithIncludes", x |-> "none",
               kind |-> "returned",
               obj |-> IF Got(i, ok)
                       THEN Spread(mapParseObject(parse, DocRef(i), 0, deepLevel))
                       ELSE Undef,
               err |-> ~ok, calls |-> 1, arg |-> <<i, ok, deepLevel>>]
  /\ UNCHANGED <<parse, remote, objects, inflight>>
  /\ UNCHANGED bufferVars

NextRead ==
  \/ \E v \in GetAllVariants : GetAllCall(v)
  \/ \E r \in inflight, ok \in BOOLEAN : CountSettle(r, ok)
  \/ \E r \in inflight, ok \in BOOLEAN : FindSettle(r, ok)
  \/ \E op \in {"getFullObjectById", "fetchById"},
        i \in 1..(Len(parse) + 1), ok \in BOOLEAN : GetFullObjectById(op, i, ok)
  \/ \E i \in 1..(Len(parse) + 1), d \in GraphDepths, ok \in BOOLEAN :
       GetFullObjectByIdWithIncludes(i, d, ok)

SpecRead == InitRead /\ [][NextRead]_vars
\* ------------------------------------------------------- shared startup
\* Any number of callers of the buffered reads: a call may start while
\* earlier ones are still suspended.  reader follows the latest call; the
\* earlier ones go on awaiting the same dataBuffer$ and change nothing of
\* the facade.  opRes.calls counts the bulk queries issued so far, and
\* opRes.arg is the state the latest call found (query, subscribe call,
\* session).
\* startUpLiveQuery first awaits dataBuffer$ and externalSubscription$ as
\* they are and only then calls getIndexedBufferedData.
\* (ReadRestarting: the variant that starts the buffer again while the
\* first start has not finished.)
ReadRestarting(op) ==
  LET starts == op # "startUpLiveQuery" /\ dataBufferP \in {"undefined", "pending"}
  IN /\ op \in ReadOps \cup {"startUpLiveQuery"}
     /\ reader' = [IdleReader EXCEPT
                     !.op = op,
                     !.pc = IF op = "startUpLiveQuery" THEN "awaitFirst"
                                                       ELSE "awaitBuffer"]
     /\ IF starts THEN startupBuffer ELSE UNCHANGED <<dataBufferP, query>>
     /\ opRes' = [opRes EXCEPT
                    !.op = op, !.kind = "awaiting",
                    !.calls = @ + (IF starts /\ session THEN 1 ELSE 0),
                    !.arg = <<query, subscribeCall, session>>]
     /\ UNCHANGED <<parse, remote, objects, inflight>>
     /\ UNCHANGED <<classname, session, server, nEvents, dataBufferDefined,
                    dataBuffer, externalSubscriptionP, parseSubscription, rows,
                    subscribeCall, pending, lastEmit, fetchRes, seqIds,
                    unsubCalled>>
Read(op) ==
  LET starts == op # "startUpLiveQuery" /\ dataBufferP = "undefined"
  IN /\ op \in ReadOps \cup {"startUpLiveQuery"}
     /\ reader' = [IdleReader EXCEPT
                     !.op = op,
                     !.pc = IF op = "startUpLiveQuery" THEN "awaitFirst"
                                                       ELSE "awaitBuffer"]
     /\ IF starts THEN startupBuffer ELSE UNCHANGED <<dataBufferP, query>>
     /\ opRes' = [opRes EXCEPT
                    !.op = op, !.kind = "awaiting",
                    !.calls = @ + (IF starts /\ session THEN 1 ELSE 0),
                    !.arg = <<query, subscribeCall, session>>]
     /\ UNCHANGED <<parse, remote, objects, inflight>>
     /\ UNCHANGED <<classname, session, server, nEvents, dataBufferDefined,
                    dataBuffer, externalSubscriptionP, parseSubscription, rows,
                    subscribeCall, pending, lastEmit, fetchRes, seqIds,
                    unsubCalled>>

\* startUpLiveQuery after its two awaits: a rejected promise raises,
\* otherwise getIndexedBufferedData is called (and starts the buffer when
\* dataBuffer$ is still undefined).
StartUpContinue ==
  /\ reader.pc = "awaitFirst"
  /\ dataBufferP # "pending" /\ externalSubscriptionP # "pending"
  /\ IF dataBufferP = "rejected" \/ externalSubscriptionP = "rejected"
     THEN /\ reader' = [reader EXCEPT !.pc = "raised"]
          /\ UNCHANGED <<dataBufferP, query, opRes>>
     ELSE /\ reader' = [reader EXCEPT !.pc = "awaitBuffer"]
          /\ IF dataBufferP = "undefined"
             THEN startupBuffer
             ELSE UNCHANGED <<dataBufferP, query>>
          /\ opRes' = [opRes EXCEPT
                         !.calls = @ + (IF dataBufferP = "undefined" /\ session
                                        THEN 1 ELSE 0)]
  /\ UNCHANGED <<parse, remote, objects, inflight>>
  /\ UNCHANGED <<classname, session, server, nEvents, dataBufferDefined,
                 dataBuffer, externalSubscriptionP, parseSubscription, rows,
                 subscribeCall, pending, lastEmit, fetchRes, seqIds,
                 unsubCalled>>

NextShared ==
  \/ \E op \in ReadOps \cup {"startUpLiveQuery"} : Read(op)
  \/ StartUpContinue
  \/ ReadBuffer
  \/ ReadSubscription
  \/ QueryResolve
  \/ PopulateFinish
  \/ QueryReject
  \/ SubscribeResolve
  \/ SubscribeReject
  \/ LogIn
  \/ \E i \in Ids, ch \in Changes : ServerChange(i, ch)

SpecShared == Init /\ [][NextShared]_vars

\* ------------------------------------------------ derived field handlers
\* subscripeAttributeUpdate and subscripeAttributeArrayUpdate bind one
\* field of this facade's objects to the stream of another facade.
DerivedOps == {"subscripeAttributeUpdate", "subscripeAttributeArrayUpdate"}

\* The object that the foreign stream emits for identifier r; tag names
\* the instance.
Foreign(r, tag) == [kind |-> "entity", id |-> r, inst |-> <<"foreign", tag>>]

\* What the bound field of an object holds when hydration has built it
\* (attr is the bound field; an object that no handler has patched yet
\* holds one of these): a single reference or nothing for the one
\* helper, an array of references or nothing for the other.
FieldValues(op) ==
  IF op = "subscripeAttributeUpdate"
  THEN {Undef} \cup {Foreign(r, 0) : r \in Ids}
  ELSE {Undef, Arr(<< >>)} \cup {Arr(<<Foreign(r, 0)>>) : r \in Ids}

\* arrayToUpdate.findIndex(x => x.entity.id == reference.entity.id), from 1;
\* 0 when no element matches.
FindIndex(elems, reference) ==
  IF \E j \in DOMAIN elems : elems[j].id = reference.id
  THEN CHOOSE j \in DOMAIN elems :
         /\ elems[j].id = reference.id
         /\ \A m \in DOMAIN elems : elems[m].id = reference.id => j <= m
  ELSE 0

\* updateAttributeArrayOnSubscriptionUpdate, on the value of the field:
\* an array that does not exist is left alone, otherwise the first
\* element with the reference's identifier is replaced, or the reference
\* is pushed.
\* (updateAttributeArrayAlwaysPush: the variant that pushes without
\* looking.)
updateAttributeArrayAlwaysPush(arrayToUpdate, reference) ==
  IF arrayToUpdate.t # "array" THEN arrayToUpdate
  ELSE Arr(Append(arrayToUpdate.elems, reference))
updateAttributeArrayOnSubscriptionUpdate(arrayToUpdate, reference) ==
  IF arrayToUpdate.t # "array" THEN arrayToUpdate
  ELSE LET index == FindIndex(arrayToUpdate.elems, reference)
       IN IF index = 0
          THEN Arr(Append(arrayToUpdate.elems, reference))
          ELSE Arr([arrayToUpdate.elems EXCEPT ![index] = reference])

\* updateAttributeArrayOnSubscriptionDelete: the first element with the
\* reference's identifier is spliced out.
updateAttributeArrayOnSubscriptionDelete(arrayToUpdate, reference) ==
  IF arrayToUpdate.t # "array" THEN arrayToUpdate
  ELSE LET index == FindIndex(arrayToUpdate.elems, reference)
       IN IF index = 0
          THEN arrayToUpdate
          ELSE Arr([j \in 1..(Len(arrayToUpdate.elems) - 1) |->
                      IF j < index THEN arrayToUpdate.elems[j]
                                   ELSE arrayToUpdate.elems[j + 1]])

\* The value of the bound field after the handler of event `name` of
\* helper op has patched it (updateAttributeOnSubscriptionUpdate assigns
\* the reference, updateAttributeOnSubscriptionDelete deletes the field).
Patched(op, name, held, reference) ==
  IF op = "subscripeAttributeUpdate"
  THEN IF name \in {"create", "update", "enter"} THEN reference ELSE Undef
  ELSE IF name \in {"create", "update", "enter"}
       THEN updateAttributeArrayOnSubscriptionUpdate(held, reference)
       ELSE updateAttributeArrayOnSubscriptionDelete(held, reference)

\* The facade of the roles once its subclass has bound one of its fields
\* with one of the two helpers (opRes.op is the helper that was called);
\* the store holds any of the documents already.
InitDerived ==
  /\ classname = "_Role" /\ session = TRUE
  /\ server \in [Ids -> {"absent", "in"}]
  /\ nEvents = 0 /\ dataBufferDefined = FALSE /\ dataBuffer = << >>
  /\ dataBufferP = "undefined" /\ externalSubscriptionP = "undefined"
  /\ parseSubscription = "undefined" /\ query = "none" /\ rows = << >>
  /\ subscribeCall = "none" /\ pending = {} /\ lastEmit = NoEmit
  /\ reader = IdleReader /\ fetchRes = NoFetch /\ seqIds = {}
  /\ unsubCalled = FALSE
  /\ parse = << >>
  /\ remote = << >>
  /\ objects = [x \in ObjNames |-> NewInstance(classname)]
  /\ inflight = {}
  /\ \E op \in DerivedOps : opRes = [NoOp EXCEPT !.op = op, !.kind = "bound"]

\* An event of the foreign stream: the handler calls the supplied lookup,
\* which resolves to an object of the cache or to undefined, and is
\* suspended on it.  One event of the foreign stream is followed.
ForeignEvent(name, r, k) ==
  /\ nEvents + 1 < MaxEvents /\ opRes.kind = "bound"
  /\ inflight = {}
  /\ k \in DOMAIN dataBuffer \cup {0}
  /\ nEvents' = nEvents + 1
  /\ inflight' = {[op |-> opRes.op, name |-> name, seq |-> nEvents + 1,
                   reference |-> Foreign(r, nEvents + 1),
                   updatedObject |-> Lookup(dataBuffer, k)]}
  /\ opRes' = [opRes EXCEPT !.kind = "awaiting"]
  /\ UNCHANGED <<parse, remote, objects>>
  /\ UNCHANGED <<classname, session, server, dataBufferDefined, dataBuffer,
                 dataBufferP, externalSubscriptionP, parseSubscription,
                 query, rows, subscribeCall, pending, lastEmit, reader,
                 fetchRes, seqIds, unsubCalled>>

\* The rest of a derived handler, after the lookup has resolved: nothing
\* without an owner; otherwise patch the owner, store it under its
\* identifier and emit 'update' when the emitter exists.  fresh is what
\* the field held if no handler has patched this object before.
\* (DerivedResumeKeyedByReference: the variant that stores the owner
\* under the identifier of the foreign object.)
DerivedResumeKeyedByReference(h, fresh) ==
  /\ h \in inflight /\ h.op \in DerivedOps
  /\ fresh \in FieldValues(h.op)
  /\ "attr" \in DOMAIN h.updatedObject => fresh = Undef
  /\ inflight' = {}
  /\ IF h.updatedObject.kind = "undefined"
     THEN /\ opRes' = [opRes EXCEPT !.kind = "ignored", !.arg = <<h>>]
          /\ UNCHANGED <<dataBuffer, lastEmit>>
     ELSE LET held == IF "attr" \in DOMAIN h.updatedObject
                      THEN h.updatedObject.attr ELSE fresh
              value == Patched(h.op, h.name, held, h.reference)
              updatedObject == [f \in DOMAIN h.updatedObject \cup {"attr"} |->
                                  IF f = "attr" THEN value ELSE h.updatedObject[f]]
          IN /\ dataBuffer' = Store(dataBuffer, h.reference.id, updatedObject)
             /\ lastEmit' = IF externalSubscriptionP = "live"
                            THEN Emit("update", updatedObject.id, updatedObject,
                                      dataBuffer', dataBuffer, h.seq)
                            ELSE lastEmit
             /\ opRes' = [opRes EXCEPT !.kind = "patched",
                                       !.arg = <<h, held, updatedObject>>]
  /\ UNCHANGED <<parse, remote, objects>>
  /\ UNCHANGED <<classname, session, server, nEvents, dataBufferDefined,
                 dataBufferP, externalSubscriptionP, parseSubscription, query,
                 rows, subscribeCall, pending, reader, fetchRes, seqIds,
                 unsubCalled>>
DerivedResume(h, fresh) ==
  /\ h \in inflight /\ h.op \in DerivedOps
  /\ fresh \in FieldValues(h.op)
  /\ "attr" \in DOMAIN h.updatedObject => fresh = Undef
  /\ inflight' = {}
  /\ IF h.updatedObject.kind = "undefined"
     THEN /\ opRes' = [opRes EXCEPT !.kind = "ignored", !.arg = <<h>>]
          /\ UNCHANGED <<dataBuffer, lastEmit>>
     ELSE LET held == IF "attr" \in DOMAIN h.updatedObject
                      THEN h.updatedObject.attr ELSE fresh
              value == Patched(h.op, h.name, held, h.reference)
              updatedObject == [f \in DOMAIN h.updatedObject \cup {"attr"} |->
                                  IF f = "attr" THEN value ELSE h.updatedObject[f]]
          IN /\ dataBuffer' = Store(dataBuffer, updatedObject.id, updatedObject)
             /\ lastEmit' = IF externalSubscriptionP = "live"
                            THEN Emit("update", updatedObject.id, updatedObject,
                                      dataBuffer', dataBuffer, h.seq)
                            ELSE lastEmit
             /\ opRes' = [opRes EXCEPT !.kind = "patched",
                                       !.arg = <<h, held, updatedObject>>]
  /\ UNCHANGED <<parse, remote, objects>>
  /\ UNCHANGED <<classname, session, server, nEvents, dataBufferDefined,
                 dataBufferP, externalSubscriptionP, parseSubscription, query,
                 rows, subscribeCall, pending, reader, fetchRes, seqIds,
                 unsubCalled>>

\* The Live Buffer of a role facade with one field bound to a foreign
\* stream.
NextDerived ==
  \/ Call("getIndexedBufferedData")
  \/ QueryResolve
  \/ PopulateFinish
  \/ SubscribeResolve
  \/ \E h \in Handlers : HandlerResume(h)
  \/ \E i \in Ids, ch \in Changes : nEvents + 1 < MaxEvents /\ ServerChange(i, ch)
  \/ \E name \in {"create", "update", "enter", "leave", "delete"},
        r \in Ids, k \in 0..MaxId : ForeignEvent(name, r, k)
  \/ \E h \in inflight : \E fresh \in FieldValues(h.op) : DerivedResume(h, fresh)

SpecDerived == InitDerived /\ [][NextDerived]_vars

\* --------------------------------------------- the writes and the cache
\* saveMany([entityObject]) of any object up to its await: mappings gives
\* the handle of the object or a new Parse.Object, which is handed to
\* Parse.Object.saveAll; entityObject is not written.
\* (SaveManyStartAttach: the variant that makes the new Parse.Object the
\* handle of entityObject.)
SaveManyStartAttach(x) ==
  LET m == mappings(parse, classname, objects[x])
      p == IF m.ref = 0 THEN Len(parse) + 1 ELSE m.ref
  IN /\ m.ref = 0 => Len(parse) < MaxParse
     /\ parse' = IF m.ref = 0 THEN Append(parse, m.obj)
                 ELSE [parse EXCEPT ![m.ref] = m.obj]
     /\ inflight' = inflight \cup {[op |-> "saveMany", x |-> x, p |-> p]}
     /\ objects' = [objects EXCEPT ![x] = SetAttr(objects[x], "entity", DocRef(p))]
     /\ UNCHANGED <<remote, opRes>>
     /\ UNCHANGED bufferVars
SaveManyStart(x) ==
  LET m == mappings(parse, classname, objects[x])
      p == IF m.ref = 0 THEN Len(parse) + 1 ELSE m.ref
  IN /\ m.ref = 0 => Len(parse) < MaxParse
     /\ parse' = IF m.ref = 0 THEN Append(parse, m.obj)
                 ELSE [parse EXCEPT ![m.ref] = m.obj]
     /\ inflight' = inflight \cup {[op |-> "saveMany", x |-> x, p |-> p]}
     /\ UNCHANGED <<remote, objects, opRes>>
     /\ UNCHANGED bufferVars

\* A caller that saves, bulk-saves and destroys the object a and fetches
\* by identifier, one call after the other, on a facade whose Live
\* Buffer is populated and follows the changes of the store.
NextFrame ==
  \/ inflight = {} /\ SaveCall("a")
  \/ \E r \in Requests, ok \in BOOLEAN : SaveSettle(r, ok)
  \/ inflight = {} /\ SaveManyStart("a")
  \/ \E r \in Requests, ok \in BOOLEAN, d \in {DefaultArrayMaxDeep} :
       SaveManySettle(r, ok, d)
  \/ inflight = {} /\ DestroyCall("a")
  \/ \E r \in Requests, ok \in BOOLEAN : DestroySettle(r, ok)
  \/ \E i \in Ids, ok1 \in BOOLEAN, ok2 \in BOOLEAN : inflight = {} /\ Fetch(i, ok1, ok2)
  \/ Call("getIndexedBufferedData")
  \/ QueryResolve
  \/ PopulateFinish
  \/ SubscribeResolve
  \/ \E h \in Handlers : HandlerResume(h)
  \/ \E i \in Ids, ch \in Changes : nEvents + 2 < MaxEvents /\ ServerChange(i, ch)

SpecFrame == InitPersist /\ [][NextFrame]_vars

\* ------------------------------------------------- patches of one array
\* The array field of one owner under a sequence of events of the bound
\* stream.  The referenced objects have one identifier more than the
\* owners, so that two elements can stand on either side of a third.
PatchIds == 1..(MaxId + 1)

\* The field as hydration builds it: nothing, or an array of references
\* to different documents (opRes.obj is the value of the field).
InitPatch ==
  /\ classname = "_Role" /\ session = TRUE
  /\ server = [i \in Ids |-> "absent"]
  /\ nEvents = 0 /\ dataBufferDefined = FALSE /\ dataBuffer = << >>
  /\ dataBufferP = "undefined" /\ externalSubscriptionP = "undefined"
  /\ parseSubscription = "undefined" /\ query = "none" /\ rows = << >>
  /\ subscribeCall = "none" /\ pending = {} /\ lastEmit = NoEmit
  /\ reader = IdleReader /\ fetchRes = NoFetch /\ seqIds = {}
  /\ unsubCalled = FALSE
  /\ parse = << >>
  /\ remote = << >>
  /\ objects = [x \in ObjNames |-> NewInstance(classname)]
  /\ inflight = {}
  /\ \E len \in 0..(MaxArray + 1) : \E ids \in [1..len -> PatchIds] :
       /\ \A j, m \in 1..len : ids[j] = ids[m] => j = m
       /\ \E held \in {Undef, Arr([j \in 1..len |-> Foreign(ids[j], 0)])} :
            opRes = [NoOp EXCEPT !.op = "subscripeAttributeArrayUpdate",
                                 !.kind = "bound", !.obj = held]

\* The handler of event `name` applies its patch for the reference with
\* identifier r (opRes.arg is the event and the reference).
PatchArray(name, r) ==
  /\ nEvents < MaxEvents
  /\ nEvents' = nEvents + 1
  /\ LET reference == Foreign(r, nEvents + 1)
     IN opRes' = [opRes EXCEPT !.kind = "patched", !.arg = <<name, reference>>,
                               !.obj = Patched(opRes.op, name, @, reference)]
  /\ UNCHANGED <<classname, session, server, dataBufferDefined, dataBuffer,
                 dataBufferP, externalSubscriptionP, parseSubscription, query,
                 rows, subscribeCall, pending, lastEmit, reader, fetchRes,
                 seqIds, unsubCalled, parse, remote, objects, inflight>>

SpecPatch ==
  InitPatch /\ [][\E name \in {"create", "update", "enter", "leave", "delete"} :
                    \E r \in PatchIds : PatchArray(name, r)]_vars

\* ================================================================ claims
RowIds == {rows[n] : n \in DOMAIN rows}

\* C1: when the bulk populate of startupBuffer completes successfully for a
\* query result of N documents (distinct identifiers), the cache has
\* exactly N entries, one per document, each under that document's id.
C1_PopulateIndexesRows ==
  [][(query = "hydrating" /\ query' = "done") =>
       /\ Cardinality(DOMAIN dataBuffer') = Len(rows)
       /\ DOMAIN dataBuffer' = RowIds
       /\ \A k \in RowIds : /\ dataBuffer'[k].kind # "undefined"
                            /\ dataBuffer'[k].id = k
                            /\ dataBuffer'[k].inst = <<"row", k>>]_vars

C1_Witness ==
  /\ query = "done"
  /\ subscribeCall = "pending"
  /\ Len(rows) = 2
  /\ DOMAIN dataBuffer = RowIds

\* C2: a leave or delete event for an id that is cached is emitted with the
\* value cached before the event, while the key is still in the cache;
\* afterwards the id is gone and every other entry is unchanged.
C2_LeaveDeleteEmitsPriorThenRemoves ==
  [][\A i \in Ids :
       (/\ parseSubscription = "open"
        /\ server[i] = "in" /\ server'[i] # "in"
        /\ i \in DOMAIN dataBuffer)
       =>
       /\ lastEmit'.name = (IF server'[i] = "out" THEN "leave" ELSE "delete")
       /\ lastEmit'.id = i
       /\ lastEmit'.seq = nEvents'
       /\ lastEmit'.obj = dataBuffer[i]
       /\ lastEmit'.held = dataBuffer[i]
       /\ i \notin DOMAIN dataBuffer'
       /\ DOMAIN dataBuffer' = DOMAIN dataBuffer \ {i}
       /\ \A k \in DOMAIN dataBuffer' : dataBuffer'[k] = dataBuffer[k]
       /\ Cardinality(DOMAIN dataBuffer') = Cardinality(DOMAIN dataBuffer) - 1]_vars

C2_Witness ==
  /\ lastEmit.name \in {"leave", "delete"}
  /\ lastEmit.obj.kind # "undefined"
  /\ lastEmit.id \notin DOMAIN dataBuffer
  /\ DOMAIN dataBuffer # {}

\* C3: the rest of a create, enter or update handler whose document
\* hydrates stores the hydrated object under the document's id, cached
\* before or not, and then emits the same event name with the object that
\* the cache now holds.
C3_StoreThenEmit ==
  [][\A h \in pending :
       (h \notin pending' /\ afterSubUpdate(classname, h.id, h.seq).kind # "undefined")
       =>
       /\ h.id \in DOMAIN dataBuffer'
       /\ dataBuffer'[h.id] = afterSubUpdate(classname, h.id, h.seq)
       /\ dataBuffer'[h.id].id = h.id
       /\ lastEmit'.name = h.name
       /\ lastEmit'.seq = h.seq
       /\ lastEmit'.obj = dataBuffer'[h.id]
       /\ lastEmit'.held = lastEmit'.obj]_vars

\* an update event for an id that was not cached has inserted it
C3_Witness ==
  /\ lastEmit.name = "update"
  /\ lastEmit.was.kind = "undefined"
  /\ lastEmit.id \in DOMAIN dataBuffer
  /\ dataBuffer[lastEmit.id] = lastEmit.obj

\* C4: the events of one class are applied strictly in delivery order, so
\* once every handler has finished the cache holds exactly the identifiers
\* that applying the delivered events one at a time, in order, leaves.
C4_AppliedInDeliveryOrder ==
  (query = "done" /\ pending = {}) => DOMAIN dataBuffer = seqIds

\* C5: with the subscription established and every emitted event handled,
\* the identifiers in the cache are those of the documents of the class
\* that the store holds for the buffer query.
C5_QuiescentCacheMatchesServer ==
  (/\ Classnames(classname) = "definition"
   /\ query = "done"
   /\ parseSubscription = "open"
   /\ pending = {})
  => DOMAIN dataBuffer = {i \in Ids : server[i] = "in"}

\* C6: once unsubscribeLiveQuery has been invoked (the handshake pending
\* or complete, a handler suspended or not), no subscription event is
\* applied: the cache is never mutated again.
C6_NoMutationAfterUnsubscribe ==
  [][unsubCalled => dataBuffer' = dataBuffer]_vars

\* C7: after the bulk query is rejected the cache is empty, the resolved
\* subscription is an emitter that never emits, no query is issued again,
\* and every read resolves (none raises, none waits on an unsettled
\* promise): reads give the empty cache, getSubscription the inert emitter.
C7_QueryRejectedDegrades ==
  /\ [](query = "rejected" =>
          /\ dataBufferDefined
          /\ DOMAIN dataBuffer = {}
          /\ dataBufferP = "resolved"
          /\ externalSubscriptionP = "inert"
          /\ subscribeCall = "none"
          /\ parseSubscription = "undefined"
          /\ pending = {}
          /\ lastEmit = NoEmit
          /\ reader.pc # "raised"
          /\ (reader.pc = "returned" =>
                IF reader.op = "getSubscription"
                THEN reader.emitter = "inert"
                ELSE reader.defined /\ reader.ids = {})
          /\ (reader.pc = "awaitBuffer" => ENABLED ReadBuffer)
          /\ (reader.pc = "awaitSubscription" => ENABLED ReadSubscription))
  /\ [][query = "rejected" => query' = "rejected"]_vars

C7_Witness ==
  /\ query = "rejected"
  /\ \E i \in Ids : server[i] = "in"
  /\ reader.pc = "returned"
  /\ reader.op = "getSubscription"
  /\ reader.emitter = "inert"

\* C8: when the bulk query succeeds and the subscribe handshake fails, the
\* cache is reset to empty and a no-op event source is the resolved
\* subscription, so no dependent read raises.
C8_SubscribeFailureDegrades ==
  subscribeCall = "rejected" =>
    /\ DOMAIN dataBuffer = {}
    /\ externalSubscriptionP = "inert"
    /\ reader.pc # "raised"

\* C9: once the bulk query has resolved and its rows are indexed, a read
\* waiting on the cache can resolve whatever the state of the subscribe
\* handshake, and it resolves with the cache as populated.
C9_ReadNotGatedOnSubscription ==
  /\ []((query = "done" /\ reader.pc = "awaitBuffer") => ENABLED ReadBuffer)
  /\ [][(/\ query = "done"
         /\ reader.pc = "awaitBuffer"
         /\ reader'.pc # "awaitBuffer"
         /\ reader.op \in {"getIndexedBufferedData", "getBufferedData"})
        => /\ reader'.pc = "returned"
           /\ reader'.defined
           /\ reader'.ids = DOMAIN dataBuffer]_vars

\* a read has returned the populated cache while the handshake is pending
C9_Witness ==
  /\ subscribeCall = "pending"
  /\ reader.pc = "returned"
  /\ reader.op = "getBufferedData"
  /\ reader.ids = RowIds
  /\ reader.ids # {}

\* C10: a fetchObjectByIdIfNeeded for an id that is in the cache returns
\* the instance stored in the cache and issues no store query.
C10_CachedFetchIsLocal ==
  [][(fetchRes' # fetchRes /\ fetchRes'.id \in DOMAIN dataBuffer) =>
       /\ fetchRes'.kind = "object"
       /\ fetchRes'.obj = dataBuffer[fetchRes'.id]
       /\ fetchRes'.queries = 0]_vars

C10_Witness ==
  /\ fetchRes.kind = "object"
  /\ fetchRes.queries = 0
  /\ fetchRes.id \in DOMAIN dataBuffer
  /\ dataBuffer[fetchRes.id] = fetchRes.obj
  /\ server[fetchRes.id] = "in"

\* C11: a fetchObjectByIdIfNeeded for an id that is not in the cache and
\* that the store does not hold returns an absent result and does not
\* raise, whether the cache was never populated, is populated but empty,
\* or holds other ids.
C11_NotFoundIsAbsent ==
  [][(/\ fetchRes' # fetchRes
      /\ fetchRes'.id \notin DOMAIN dataBuffer
      /\ server[fetchRes'.id] = "absent")
     => fetchRes'.kind = "absent"]_vars

\* C12: when the store rejects the persist call of a save, the save
\* returns (it does not raise) the domain object it was given, and that
\* object has the fields and the handle it had: no handle if it had none.
\* The call itself, up to its await, leaves the object as it was too.
C12_RejectedSaveLeavesObject ==
  [][\A r \in Requests :
       /\ (r.op = "save" /\ r \in inflight /\ r \notin inflight' /\ opRes'.err)
          => /\ opRes'.op = "save"
             /\ opRes'.kind = "returned"
             /\ opRes'.x = r.x
             /\ objects'[r.x] = objects[r.x]
             /\ Nullish(Get(objects[r.x], "entity"))
                  => Nullish(Get(objects'[r.x], "entity"))
             /\ remote' = remote
       /\ (r.op = "save" /\ r \notin inflight /\ r \in inflight')
          => objects' = objects]_vars

\* a rejected save has returned an object that has a field and no handle
C12_Witness ==
  /\ opRes.op = "save" /\ opRes.err /\ opRes.kind = "returned"
  /\ Nullish(Get(objects[opRes.x], "entity"))
  /\ Get(objects[opRes.x], "name") = Scalar("X")
  /\ inflight = {}
  /\ remote = << >>

\* C13: saving one domain object any number of times creates at most one
\* document: the first successful save attaches the created document as
\* the handle, every later one persists that document.  (Under SpecSave
\* the object a is the only one that is saved.)
C13_AtMostOneDocument == Len(remote) <= 1

\* C14: destroy of a domain object without a handle raises and issues no
\* store call; destroy of an object with a handle raises again when the
\* store rejects the delete.
C14_DestroyRaises ==
  [][/\ \A r \in Requests :
          (r.op = "destroy" /\ r \notin inflight /\ r \in inflight')
          => ~Nullish(Get(objects[r.x], "entity"))
     /\ (/\ opRes' # opRes /\ opRes'.op = "destroy" /\ inflight' = inflight)
          => /\ Nullish(Get(objects[opRes'.x], "entity"))
             /\ opRes'.kind = "raised"
             /\ opRes'.calls = 0
             /\ remote' = remote /\ parse' = parse
     /\ \A x \in ObjNames :
          (Nullish(Get(objects[x], "entity")) /\ opRes'.op = "destroy" /\ opRes'.x = x
             /\ opRes' # opRes)
          => opRes'.kind = "raised" \/ inflight' # inflight
     /\ \A r \in Requests :
          (r.op = "destroy" /\ r \in inflight /\ r \notin inflight' /\ opRes'.err)
          => /\ opRes'.op = "destroy" /\ opRes'.x = r.x
             /\ opRes'.kind = "raised"
             /\ remote' = remote]_vars

\* the store has rejected the delete of a document it holds, and destroy
\* has raised
C14_Witness ==
  /\ opRes.op = "destroy" /\ opRes.kind = "raised" /\ opRes.err
  /\ opRes.calls = 1
  /\ ~Nullish(Get(objects[opRes.x], "entity"))
  /\ ~remote[parse[objects[opRes.x]["entity"].ref].id].deleted

\* C15: the shallow duplicate of o leaves o as it was (handle and
\* fields), issues no store call, and returns a new object with every
\* field of o except the handle and with no handle; the save of an
\* object without a handle persists a new Parse.Object, for which the
\* store creates a new document and rewrites none.
C15_ShallowDuplicate ==
  [][/\ (opRes' # opRes /\ opRes'.op = "duplicate")
        => LET o == objects[opRes'.x]
               copy == opRes'.obj.o
           IN /\ objects'[opRes'.x] = o
              /\ parse' = parse /\ remote' = remote /\ inflight' = inflight
              /\ opRes'.calls = 0 /\ opRes'.kind = "returned"
              /\ Nullish(Get(copy, "entity"))
              /\ \A k \in DOMAIN o \ {"entity"} : k \in DOMAIN copy /\ copy[k] = o[k]
              /\ \E y \in ObjNames \ {opRes'.x} : objects'[y] = copy
     /\ \A r \in Requests :
          (/\ r.op = "save" /\ r \notin inflight /\ r \in inflight'
           /\ Nullish(Get(objects[r.x], "entity")))
          => r.p \notin DOMAIN parse /\ parse'[r.p].id = 0
     /\ \A r \in Requests :
          (/\ r.op = "save" /\ r \in inflight /\ r \notin inflight'
           /\ ~opRes'.err /\ parse[r.p].id = 0)
          => /\ Len(remote') = Len(remote) + 1
             /\ parse'[r.p].id = Len(remote')
             /\ \A i \in DOMAIN remote : remote'[i] = remote[i]]_vars

\* b, a shallow duplicate of the saved object a, has been saved: it has
\* a's name and a document of its own
C15_Witness ==
  /\ ~Nullish(Get(objects["a"], "entity"))
  /\ ~Nullish(Get(objects["b"], "entity"))
  /\ parse[objects["a"]["entity"].ref].id # 0
  /\ parse[objects["b"]["entity"].ref].id # 0
  /\ parse[objects["a"]["entity"].ref].id # parse[objects["b"]["entity"].ref].id
  /\ Get(objects["b"], "name") = Scalar("X")
  /\ Len(remote) = 2

\* C16: the deep duplicate of o persists a new document, whose identifier
\* is not the identifier of o's handle, and leaves o, o's handle and
\* every document the store already holds as they were.
C16_DeepDuplicate ==
  [][/\ \A r \in Requests :
          (r.op = "duplicate" /\ r \in inflight /\ r \notin inflight' /\ ~opRes'.err)
          => LET h == Get(objects[r.x], "entity")
             IN /\ opRes'.op = "duplicateDeep" /\ opRes'.kind = "returned"
                /\ Len(remote') > Len(remote)
                /\ parse'[r.p].id \in DOMAIN remote' \ DOMAIN remote
                /\ \A i \in DOMAIN remote : remote'[i] = remote[i]
                /\ objects' = objects
                /\ ~Nullish(h) => /\ parse'[r.p].id # parse[h.ref].id
                                  /\ parse'[h.ref] = parse[h.ref]
     /\ \A r \in Requests :
          (r.op = "duplicate" /\ r \notin inflight /\ r \in inflight')
          => LET h == Get(objects[r.x], "entity")
             IN /\ objects' = objects
                /\ remote' = remote
                /\ ~Nullish(h) => parse'[h.ref] = parse[h.ref]]_vars

\* the saved object a (document 1) has been duplicated on the store:
\* document 2 holds a's name, document 1 is a's
C16_Witness ==
  /\ opRes.op = "duplicateDeep" /\ opRes.kind = "returned"
  /\ ~Nullish(Get(objects["a"], "entity"))
  /\ parse[objects["a"]["entity"].ref].id = 1
  /\ opRes.obj.t = "entity"
  /\ parse[opRes.obj.o["entity"].ref].id = 2
  /\ Len(remote) = 2
  /\ Get(remote[2].attrs, "name") = Scalar("X")
  /\ Get(remote[1].attrs, "name") = Scalar("X")

C18_FlattenRule ==
  [][(opRes.op = "none" /\ opRes'.op = "mappings")
     => LET o == objects[opRes'.x]
            after == parse'[opRes'.obj.ref].attrs
        IN /\ \A k \in DOMAIN o \ {"entity"} :
                o[k].t # "array" =>
                  IF Nullish(o[k]) THEN k \notin DOMAIN after
                  ELSE /\ k \in DOMAIN after
                       /\ after[k] =
                            IF o[k].t = "scalar" THEN o[k]
                            ELSE IF o[k].t \in {"entity", "file", "object"}
                                 THEN Get(o[k].o, "entity")
                            ELSE o[k]
           /\ "entity" \notin DOMAIN after
           /\ objects' = objects
           /\ remote' = remote /\ inflight' = inflight
           /\ opRes'.calls = 0]_vars

\* an object with a handle has been flattened: its undefined name is no
\* longer an attribute of the document, its owner is the owner's
\* document
C18_Witness ==
  /\ opRes.op = "mappings"
  /\ ~Nullish(Get(objects["a"], "entity"))
  /\ opRes.obj = objects["a"]["entity"]
  /\ objects["a"]["name"] = Undef
  /\ objects["a"]["owner"].t = "object"
  /\ "name" \notin DOMAIN parse[opRes.obj.ref].attrs
  /\ parse[opRes.obj.ref].attrs["owner"] = DocRef(2)

\* A value that hydration has converted, or an array that holds one.
Converted(v) ==
  \/ v.t \in {"entity", "file", "object"}
  \/ v.t = "array" /\ \E j \in DOMAIN v.elems : v.elems[j].t \in {"entity", "file", "object"}

\* C19: a generic hydration that succeeds has the document it was given
\* as the result's entity, whatever deepLevel and maxDeep are; when
\* deepLevel equals maxDeep (maxDeep = 0 in a call at depth 0) no
\* attribute of the document is converted, and the entity is attached.
C19_HandleAttached ==
  (opRes.op = "hydrate" /\ opRes.obj.t = "entity")
  => LET doc == opRes.arg[1]
         m == opRes.obj.o
     IN /\ Get(m, "entity") = doc
        /\ opRes.arg[2] = opRes.arg[3]
             => \A k \in DOMAIN parse[doc.ref].attrs : ~Converted(Get(m, k))

\* the first document, which refers to the second, has been hydrated
\* with maxDeep = 0: the result has the document and none of its
\* attributes
C19_Witness ==
  /\ opRes.op = "hydrate" /\ opRes.obj.t = "entity"
  /\ opRes.arg = <<DocRef(1), 0, 0>>
  /\ opRes.obj.o["entity"] = DocRef(1)
  /\ Get(parse[1].attrs, "parent") = DocRef(2)
  /\ "parent" \notin DOMAIN opRes.obj.o

\* The attributes of the document of the hydrated object v have been
\* walked.
Walked(v) ==
  LET d == parse[v.o["entity"].ref]
  IN \E k \in DOMAIN d.attrs \ DOMAIN NewInstance(d.className) : k \in DOMAIN v.o

\* No document that the value v, reached at the given depth, holds at
\* depth m or deeper has had its attributes converted.
RECURSIVE DepthHonoured(_, _, _)
DepthHonoured(v, depth, m) ==
  IF v.t = "array"
  THEN \A j \in DOMAIN v.elems : DepthHonoured(v.elems[j], depth, m)
  ELSE IF v.t = "entity"
  THEN /\ depth >= m => ~Walked(v)
       /\ \A k \in DOMAIN v.o \ {"entity"} : DepthHonoured(v.o[k], depth + 1, m)
  ELSE TRUE

\* C20: in a hydration started at depth 0 with maximum depth m, no
\* document reached through nested references and reference arrays at
\* depth m or more has its attributes converted; the array form with its
\* default maximum depth 2 hydrates each row at depth 0 with maximum
\* depth 2.
C20_DepthLimitHonoured ==
  /\ (opRes.op = "hydrate" /\ opRes.arg[2] = 0)
       => DepthHonoured(opRes.obj, 0, opRes.arg[3])
  /\ (opRes.op = "hydrateArray" /\ opRes.arg[3] = DefaultArrayMaxDeep)
       => DepthHonoured(opRes.obj, 0, DefaultArrayMaxDeep)

\* The value v, reached at the given depth, is the result of a hydration
\* that finished and has no hydrated object deeper than m.
RECURSIVE Bounded(_, _, _)
Bounded(v, depth, m) ==
  IF v.t = "unfinished" THEN FALSE
  ELSE IF v.t = "array"
  THEN \A j \in DOMAIN v.elems : Bounded(v.elems[j], depth, m)
  ELSE IF v.t = "entity"
  THEN /\ depth <= m
       /\ \A k \in DOMAIN v.o \ {"entity"} : Bounded(v.o[k], depth + 1, m)
  ELSE TRUE

\* C21: a hydration started at depth 0 with a maximum depth given by the
\* caller terminates on every graph of documents, cycles through
\* reference arrays included, and no hydrated object lies deeper than
\* the maximum depth.
C21_HydrationBounded ==
  (opRes.op = "hydrate" /\ opRes.arg[2] = 0)
  => Bounded(opRes.obj, 0, opRes.arg[3])

\* The array res is the hydration of the documents raw, element by
\* element: absent where the class has no definition in the registry, a
\* hydrated object with its document where the class has a definition or
\* is the user class.
ElementsHydrated(raw, res) ==
  /\ res.t = "array"
  /\ Len(res.elems) = Len(raw)
  /\ \A j \in DOMAIN raw :
       LET classReference == Classnames(parse[raw[j].ref].className)
       IN /\ classReference = "undefined" => res.elems[j] = Undef
          /\ classReference \in {"definition", "_User"}
               => /\ res.elems[j].t \in {"entity", "object"}
                  /\ res.elems[j].o["entity"] = raw[j]

\* C22: hydrating a document of a class without a definition in the
\* registry returns undefined and raises nothing; when such a document
\* is an element of an array that is hydrated (the rows of a bulk call,
\* or a reference array of a walked document), the other elements are
\* hydrated all the same.
C22_UnregisteredIsAbsent ==
  /\ opRes.op = "hydrate"
       => LET doc == parse[opRes.arg[1].ref]
              walked == opRes.obj.t = "entity" /\ opRes.arg[2] # opRes.arg[3]
                          /\ opRes.arg[2] + 1 # opRes.arg[3]
          IN /\ Classnames(doc.className) = "undefined"
                  => opRes.kind = "returned" /\ opRes.obj = Undef
             /\ (walked /\ "roles" \in DOMAIN doc.attrs)
                  => ElementsHydrated(doc.attrs["roles"].elems, opRes.obj.o["roles"])
  /\ (opRes.op = "hydrateArray" /\ opRes.arg[3] # 0)
       => opRes.kind = "returned" /\ ElementsHydrated(opRes.arg[1].elems, opRes.obj)

\* five rows, the fifth of the class Task, have been hydrated in bulk:
\* the fifth result is undefined and the first four are objects
C22_Witness ==
  /\ opRes.op = "hydrateArray" /\ opRes.arg[3] = DefaultArrayMaxDeep
  /\ Len(opRes.arg[1].elems) = Len(parse)
  /\ parse[Len(parse)].className = "Task"
  /\ opRes.obj.elems[Len(parse)] = Undef
  /\ \A j \in 1..(Len(parse) - 1) : opRes.obj.elems[j].t = "entity"

\* C23: a document whose class the registry resolves to the user
\* sentinel is hydrated by the user rule (username, email, role, the
\* document as entity) and nothing in it is hydrated further; a document
\* whose class the registry resolves to the file sentinel is hydrated by
\* the file rule (name, url, the document as entity); neither is
\* undefined.
C23_SentinelsDelegate ==
  opRes.op = "hydrate"
  => LET doc == parse[opRes.arg[1].ref]
         r == opRes.obj
     IN /\ Classnames(doc.className) = "_User"
             => /\ r.t = "object"
                /\ r.o["username"] = Get(doc.attrs, "username")
                /\ r.o["email"] = Get(doc.attrs, "email")
                /\ r.o["role"] = Get(doc.attrs, "role")
                /\ r.o["entity"] = opRes.arg[1]
                /\ \A k \in DOMAIN r.o : ~Converted(r.o[k])
        /\ Classnames(doc.className) = "_File"
             => /\ r.t = "file"
                /\ {"name", "url"} \subseteq DOMAIN r.o
                /\ r.o["entity"] = opRes.arg[1]

\* The identifiers of the elements of an array of Parse.Objects (0 for
\* one that has none).
IdsOf(seq) == {IdOf(parse, seq[n]) : n \in DOMAIN seq}

\* The elements that the calls of the given kind were made with.
Called(ops, kind) ==
  LET at == Filter([n \in DOMAIN ops |-> n], [n \in DOMAIN ops |-> ops[n].op = kind])
  IN [n \in DOMAIN at |-> ops[at[n]].x]

\* save or saveMany has flattened the object and awaits the store.
Flattened == opRes.op \in {"saveCall", "saveManyCall"} /\ opRes.kind = "awaiting"

\* The desired array of the flattened object is an array of references.
DesiredRefs == Handles(objects[opRes.x], "roles")
IsRefArray(seq) == Len(seq) > 0 /\ seq[1].t = "doc"

\* C24: when the document already holds an array for the field and the
\* desired array is an array of references, the calls made are addUnique
\* for exactly the desired references whose identifier the held array
\* lacks, then remove for exactly the held references whose identifier
\* the desired array lacks; no identifier is both added and removed, a
\* reference whose identifier is in both is left alone whichever
\* instance it is, no set is made on the field, and afterwards the
\* identifiers in the field are those of the desired array.
C24_DeltaByIdentifier ==
  (Flattened /\ IsRefArray(DesiredRefs) /\ opRes.arg[1].t = "array")
  => LET cur == opRes.arg[1].elems
         ops == opRes.arg[2]
         adds == Called(ops, "addUnique")
         removes == Called(ops, "remove")
         now == parse[opRes.obj.ref].attrs["roles"]
     IN /\ adds = Filter(DesiredRefs, [n \in DOMAIN DesiredRefs |->
                      IdOf(parse, DesiredRefs[n]) \notin IdsOf(cur)])
        /\ removes = Filter(cur, [n \in DOMAIN cur |->
                         IdOf(parse, cur[n]) \notin IdsOf(DesiredRefs)])
        /\ Len(ops) = Len(adds) + Len(removes)
        /\ IdsOf(adds) \cap IdsOf(removes) = {}
        /\ \A n \in DOMAIN ops :
             IdOf(parse, ops[n].x) \notin IdsOf(cur) \cap IdsOf(DesiredRefs)
        /\ now.t = "array" /\ IdsOf(now.elems) = IdsOf(DesiredRefs)

\* the document held the roles 2 and 3 and the caller desires another
\* instance of role 2 and a new role: the new role was added, role 3
\* removed, role 2 left alone
C24_Witness ==
  /\ Flattened
  /\ opRes.arg[1] = Arr(<<DocRef(2), DocRef(3)>>)
  /\ DesiredRefs = <<DocRef(4), DocRef(5)>>
  /\ opRes.arg[2] = <<ArrayOp("addUnique", DocRef(5)), ArrayOp("remove", DocRef(3))>>
  /\ parse[1].attrs["roles"] = Arr(<<DocRef(2), DocRef(5)>>)

\* C25: a flatten that follows a flatten of the same object with the
\* same desired array makes no addUnique, no remove and no addAllUnique
\* call, repeated identifiers in the desired array included.
C25_SecondDeltaEmpty ==
  [][(Flattened /\ opRes'.op \in {"saveCall", "saveManyCall"}
        /\ opRes'.kind = "awaiting" /\ opRes'.x = opRes.x /\ objects' = objects)
      => \A n \in DOMAIN opRes'.arg[2] : opRes'.arg[2][n].op = "set"]_vars

\* a second flatten found the array that the first one left (the store
\* still has another) and made no call, the desired array naming the
\* identifier 2 twice
C25_Witness ==
  /\ Flattened
  /\ DesiredRefs = <<DocRef(2), DocRef(4)>>
  /\ opRes.arg[2] = << >>
  /\ opRes.arg[1] = Arr(<<DocRef(2)>>)
  /\ "roles" \notin DOMAIN remote[1].attrs

\* C26: when the document holds no value for the field and the desired
\* array is an array of references, the one call made is addAllUnique
\* with the whole desired array.
C26_BulkAddWhenNoPrior ==
  (Flattened /\ IsRefArray(DesiredRefs) /\ Nullish(opRes.arg[1]))
  => opRes.arg[2] = <<ArrayOp("addAllUnique", Arr(DesiredRefs))>>

\* a role without roles was given two roles: one addAllUnique, and the
\* document holds both
C26_Witness ==
  /\ Flattened /\ opRes.arg[1] = Undef
  /\ DesiredRefs = <<DocRef(2), DocRef(3)>>
  /\ Len(opRes.arg[2]) = 1 /\ opRes.arg[2][1].op = "addAllUnique"
  /\ parse[1].attrs["roles"] = Arr(<<DocRef(2), DocRef(3)>>)

\* C27: when an addUnique or remove call reports no document, save and
\* saveMany raise, issue no request to the store and write nothing to
\* it or to the caller's object; the calls made before the failing one
\* stay applied to the Parse.Object.
C27_FailedCallAborts ==
  [][(opRes'.op \in {"saveCall", "saveManyCall"} /\ opRes'.err)
      => /\ opRes'.kind = "raised" /\ opRes'.calls = 0
         /\ inflight' = inflight /\ remote' = remote /\ objects' = objects
         /\ parse'[opRes'.obj.ref].attrs["roles"]
              = applyOps(parse, opRes'.arg[1],
                         SubSeq(opRes'.arg[2], 1, opRes'.arg[3] - 1))]_vars

\* the second call of a save reported no document: save raised, nothing
\* is in flight, and the first call's element is in the array
C27_Witness ==
  /\ opRes.op = "saveCall" /\ opRes.kind = "raised" /\ opRes.arg[3] = 2
  /\ opRes.arg[1] = Arr(<<DocRef(2)>>)
  /\ opRes.arg[2][1] = ArrayOp("addUnique", DocRef(3))
  /\ parse[1].attrs["roles"] = Arr(<<DocRef(2), DocRef(3)>>)
  /\ inflight = {}

\* The calls are a delta: none of them is a set.
IsDelta(ops) == \A n \in DOMAIN ops : ops[n].op # "set"

\* C28: when two writers compute their deltas for the field against the
\* same stored array, the identifiers in the array are the same whichever
\* delta the store applies first, and applying the first writer's delta
\* once more changes nothing.
C28_DeltasCommute ==
  (opRes.op = "writers" /\ IsDelta(opRes.arg[2]) /\ IsDelta(opRes.arg[3]))
  => /\ IdsOf(opRes.obj.ab.elems) = IdsOf(opRes.obj.ba.elems)
     /\ opRes.obj.aba = opRes.obj.ab

\* the store held the roles 2 and 3; one writer replaces 3 by a new
\* role, the other drops 2: either order leaves the new role alone
C28_Witness ==
  /\ opRes.op = "writers"
  /\ opRes.arg[1] = Arr(<<DocRef(2), DocRef(3)>>)
  /\ opRes.arg[2] = <<ArrayOp("addUnique", DocRef(5)), ArrayOp("remove", DocRef(3))>>
  /\ opRes.arg[3] = <<ArrayOp("remove", DocRef(2))>>
  /\ opRes.obj.ab = Arr(<<DocRef(5)>>)
  /\ opRes.obj.ba = Arr(<<DocRef(5)>>)

\* C29: each get-all variant issues the count query and, only when it
\* has settled, the find; the limit of the find is the count, or
\* queryLimit when the count was rejected; a rejected find makes the
\* call return the empty list, not raise.
C29_CountThenFetch ==
  opRes.op \in GetAllVariants
  => /\ opRes.arg[1] \in {<<"count">>, <<"count", "find">>}
     /\ opRes.calls = Len(opRes.arg[1])
     /\ opRes.kind \in {"awaiting", "returned"}
     /\ Len(opRes.arg[1]) = 2
          => opRes.arg[3] = IF opRes.arg[2] = -1 THEN queryLimit ELSE opRes.arg[2]
     /\ inflight # {}
          => \A r \in inflight :
                r.pc = "find" <=> opRes.arg[1] = <<"count", "find">>
     /\ opRes.kind = "returned"
          => /\ Len(opRes.arg[1]) = 2
             /\ opRes.obj.t = "array"
             /\ opRes.err => opRes.obj = Arr(<< >>)
             /\ ~opRes.err => Len(opRes.obj.elems)
                                = (IF opRes.arg[3] < Len(Matching(remote))
                                   THEN opRes.arg[3] ELSE Len(Matching(remote)))

\* the count was rejected, the find was issued with the limit 100000
\* and was rejected too: the call returned the empty list
C29_Witness ==
  /\ opRes.op = "getAllWithIncludes" /\ opRes.kind = "returned"
  /\ opRes.arg = <<<<"count", "find">>, -1, queryLimit>>
  /\ opRes.err /\ opRes.obj = Arr(<< >>)
  /\ Len(Matching(remote)) > 0

\* The value v, reached at the given depth, is hydrated exactly to
\* depth m: the objects above depth m have their attributes, those at
\* depth m have none.
RECURSIVE HydratedTo(_, _, _)
HydratedTo(v, depth, m) ==
  IF v.t = "array"
  THEN \A j \in DOMAIN v.elems : HydratedTo(v.elems[j], depth, m)
  ELSE IF v.t = "entity"
  THEN /\ Walked(v) <=> depth < m
       /\ \A k \in DOMAIN v.o \ {"entity"} : HydratedTo(v.o[k], depth + 1, m)
  ELSE TRUE

\* C30: getFullObjectById and fetchById raise when the store has no
\* document of the class with the identifier or the query is rejected,
\* and otherwise return the document hydrated from depth 0 to depth 3;
\* getFullObjectByIdWithIncludes returns undefined where they raise.
C30_NotFoundRaisesOrAbsent ==
  LET i == opRes.arg[1]
      got == /\ opRes.arg[2] /\ i \in DOMAIN remote
             /\ remote[i].className = classname /\ ~remote[i].deleted
  IN /\ opRes.op \in {"getFullObjectById", "fetchById"}
          => IF got
             THEN /\ opRes.kind = "returned"
                  /\ opRes.obj.t = "object"
                  /\ opRes.obj.o["entity"] = DocRef(i)
                  /\ HydratedTo(Entity(opRes.obj.o), 0, DefaultMaxDeep)
             ELSE opRes.kind = "raised"
     /\ opRes.op = "getFullObjectByIdWithIncludes"
          => /\ opRes.kind = "returned"
             /\ ~got => opRes.obj = Undef
             /\ got => opRes.obj.t = "object" /\ opRes.obj.o["entity"] = DocRef(i)

\* fetchById of the first role returned it with its parent and its
\* parent's parent filled in and the third parent as a bare object
C30_Witness ==
  /\ opRes.op = "fetchById" /\ opRes.kind = "returned" /\ opRes.arg[1] = 1
  /\ "name" \in DOMAIN opRes.obj.o["parent"].o["parent"].o
  /\ opRes.obj.o["parent"].o["parent"].o["parent"].o["entity"] = DocRef(4)
  /\ "name" \notin DOMAIN opRes.obj.o["parent"].o["parent"].o["parent"].o

\* C32: for any number of buffered reads in any interleaving, reads that
\* start while the bulk query is in flight included, the bulk query is
\* issued at most once and subscribe() is called at most once: a query or
\* a subscribe call becomes pending only from never having been issued.
C32_OneQueryOneSubscription ==
  [][/\ opRes'.calls <= 1
     /\ (query' = "pending" /\ query # "pending") => query = "none"
     /\ (subscribeCall' = "pending" /\ subscribeCall # "pending")
          => subscribeCall = "none"]_vars

\* a read that started while the bulk query was in flight has returned;
\* one query was issued and one subscription is open
C32_Witness ==
  /\ opRes.op = "getSubscription" /\ opRes.arg = <<"pending", "none", TRUE>>
  /\ opRes.calls = 1
  /\ reader.pc = "returned" /\ reader.emitter = "live"
  /\ query = "done" /\ subscribeCall = "resolved"

\* C33: a getIndexedBufferedData call made while a session exists
\* returns a defined cache, whatever reads were made before the session
\* existed.
C33_ReadWithSessionIsDefined ==
  (/\ reader.op = "getIndexedBufferedData" /\ reader.pc = "returned"
   /\ opRes.op = "getIndexedBufferedData" /\ opRes.arg[3])
  => reader.defined

\* C31: when the handler of a foreign event finishes and its lookup had
\* resolved an owner, the owner's field is patched (single value: the
\* foreign object on create, enter and update, nothing on leave and
\* delete; array: exactly one element with the object's identifier, the
\* object itself, on create, enter and update, none on leave and delete)
\* and one 'update' event carrying the owner is emitted in that step.
C31_PatchedAndEmitted ==
  [][(inflight # {} /\ inflight' = {} /\ opRes'.kind = "patched")
     => LET h == opRes'.arg[1]
            updatedObject == opRes'.arg[3]
            upsert == h.name \in {"create", "update", "enter"}
        IN /\ h.op = "subscripeAttributeUpdate"
                => updatedObject.attr = IF upsert THEN h.reference ELSE Undef
           /\ h.op = "subscripeAttributeArrayUpdate" /\ upsert
                => /\ updatedObject.attr.t = "array"
                   /\ Cardinality({j \in DOMAIN updatedObject.attr.elems :
                         updatedObject.attr.elems[j].id = h.reference.id}) = 1
                   /\ \E j \in DOMAIN updatedObject.attr.elems :
                         updatedObject.attr.elems[j] = h.reference
           /\ h.op = "subscripeAttributeArrayUpdate" /\ ~upsert
                => \/ updatedObject.attr.t # "array"
                   \/ \A j \in DOMAIN updatedObject.attr.elems :
                         updatedObject.attr.elems[j].id # h.reference.id
           /\ lastEmit' # lastEmit
           /\ lastEmit'.name = "update" /\ lastEmit'.seq = h.seq
           /\ lastEmit'.obj = updatedObject]_vars

\* C34: a derived handler that finishes adds no identifier to the cache.
C34_NoIdentifierInserted ==
  [][(inflight # {} /\ inflight' = {})
     => DOMAIN dataBuffer' \subseteq DOMAIN dataBuffer]_vars

\* C36: every entry of the cache is a hydrated object stored under the
\* identifier of its own handle, after the bulk populate, after every
\* subscription handler and after every derived handler.
C36_EntriesKeyedByHandle ==
  \A k \in DOMAIN dataBuffer :
    /\ dataBuffer[k].kind \in {"entity", "user", "file"}
    /\ dataBuffer[k].id = k

\* the cache holds a row of the bulk query that a derived handler has
\* patched next to an object that a subscription event brought
C36_Witness ==
  /\ opRes.kind = "patched"
  /\ \E k, j \in DOMAIN dataBuffer :
       /\ k # j
       /\ dataBuffer[k].inst[1] = "row" /\ "attr" \in DOMAIN dataBuffer[k]
       /\ dataBuffer[j].inst[1] = "event"

\* C35: the document that a deep duplicate hands to the store has every
\* field of the object other than the handle whose value is defined, the
\* empty string included, with the same value or, for a saved object,
\* with a clone of its document.
C35_DeepCopiesEveryDefinedField ==
  [][\A r \in inflight' \ inflight :
       r.op = "duplicate"
       => LET entityObject == objects[r.x]
              parseObject == parse'[r.p]
          IN \A property \in DOMAIN entityObject \ {"entity"} :
               entityObject[property] # Undef
               => /\ property \in DOMAIN parseObject.attrs
                  /\ IF HasSavedEntity(parse, entityObject[property])
                     THEN /\ parseObject.attrs[property].t = "doc"
                          /\ parse'[parseObject.attrs[property].ref]
                               = Clone(parse, entityObject[property].o["entity"].ref)
                     ELSE parseObject.attrs[property] = entityObject[property]]_vars

C38_SaveManyKeepsHandles ==
  [][\A r \in (inflight' \ inflight) \cup (inflight \ inflight') :
       r.op = "saveMany"
       => /\ \A x \in ObjNames :
               Get(objects'[x], "entity") = Get(objects[x], "entity")
          /\ r \in inflight
               => /\ opRes'.op = "saveMany"
                  /\ opRes'.kind = IF opRes'.err THEN "raised" ELSE "returned"
                  /\ opRes'.err => remote' = remote
                  /\ ~opRes'.err => /\ parse'[r.p].id \in DOMAIN remote'
                                    /\ ~remote'[parse'[r.p].id].deleted]_vars

\* saveMany of an object without a handle has returned: the object has
\* no handle still, the returned object carries the stored document
C38_Witness ==
  /\ opRes.op = "saveMany" /\ opRes.kind = "returned"
  /\ Nullish(Get(objects["a"], "entity"))
  /\ parse[opRes.obj.elems[1].o["entity"].ref].id # 0

\* C39: a patch of an array field whose elements have different
\* identifiers leaves an array whose elements have different identifiers;
\* after create, update or enter of r exactly one element has identifier
\* r and it is the reference of the event, after leave or delete of r
\* none has, and the elements with other identifiers are the same, in the
\* same order.
UniqueIds(es) == \A j, m \in DOMAIN es : es[j].id = es[m].id => j = m
OthersThan(es, r) == LET other(e) == e.id # r IN SelectSeq(es, other)
C39_PatchKeepsUniqueOrder ==
  [][(nEvents' # nEvents /\ opRes.obj.t = "array" /\ UniqueIds(opRes.obj.elems))
       => LET name == opRes'.arg[1]
              reference == opRes'.arg[2]
              after == opRes'.obj.elems
              at == {j \in DOMAIN after : after[j].id = reference.id}
          IN /\ opRes'.obj.t = "array"
             /\ UniqueIds(after)
             /\ IF name \in {"create", "update", "enter"}
                THEN Cardinality(at) = 1 /\ \A j \in at : after[j] = reference
                ELSE at = {}
             /\ OthersThan(after, reference.id)
                  = OthersThan(opRes.obj.elems, reference.id)]_vars
\* an element between two others has been replaced, and one removed
C39_Witness ==
  /\ opRes.kind = "patched" /\ opRes.obj.t = "array"
  /\ \/ /\ opRes.arg[1] = "update" /\ Len(opRes.obj.elems) = 3
        /\ opRes.obj.elems[2] = opRes.arg[2]
     \/ /\ opRes.arg[1] = "delete" /\ Len(opRes.obj.elems) = 2
        /\ nEvents = 1 /\ opRes.obj.elems[1].id + 2 = opRes.obj.elems[2].id
====
